---- MODULE Spec2Model ----
(***************************************************************************)
(* Model of train_fid_temporal.py: the ForecastingDataset example          *)
(* transformer (get_category, __getitem__), the per-day encoder adapter    *)
(* (get_fid_outputs) and the sequence batch collator                       *)
(* (forecaster_collate_fn), driven the way train()/evaluate() drive them:  *)
(* the DataLoader fetches the items of a batch, each item is encoded, and  *)
(* the encoded items are collated; between two batches the dataset's      *)
(* public methods pre_filter and over_sample may be called (Spec).         *)
(* SpecBatch follows the batches of train()'s epochs, and of the            *)
(* evaluate() that ends each epoch, through the forecaster, the losses,    *)
(* the metrics and the results list; SpecTrain follows train() through its *)
(* epochs, optimizer updates, evaluations and the final save.              *)
(*                                                                         *)
(* Python floats are modelled as exact rationals <<num, den>> in lowest    *)
(* terms with den > 0; the infinities are <<1, 0>> and <<-1, 0>> and       *)
(* not-a-number is <<0, 0>>.  A string the code parses is the sequence of  *)
(* its code points.  Python's 0-based indices are kept in the data         *)
(* (day ids, seq_ends, true labels); TLA+ sequences are 1-based, so        *)
(* element d (0-based) of a Python list is element d + 1 of its model.     *)
(* The losses, which contain logarithms, are exact sums of a rational and  *)
(* rational multiples of logarithms of primes.                             *)
(***************************************************************************)
EXTENDS Integers, Sequences, FiniteSets, TLC

VARIABLES
    data,               \* ForecastingDataset.data: the list of records
    opt,                \* the options read by the code
    batch,              \* the items the DataLoader has fetched for the current batch
    fid_outputs_batch,  \* train()/evaluate(): per-item encoder outputs
    targets_batch,      \* train()/evaluate(): per-item padded targets
    true_labels_batch,  \* train()/evaluate(): per-item true labels
    cats_batch,         \* train()/evaluate(): per-item categories
    fid_training,       \* the encoder module's training flag
    last,               \* this iteration's latest __getitem__ call: index, record before, result
    call,               \* this iteration's latest get_fid_outputs call: arguments and result
    out,                \* this iteration's forecaster_collate_fn call: arguments and result
    exc,                \* the exception that ended the process, or "none"
    run,                \* train(): its arguments, locals and the modules' state
    net                 \* train()/evaluate() batch by batch: datasets, parameters, the
                        \* latest batch's outputs, losses, metrics, evaluate()'s locals

vars == <<data, opt, batch, fid_outputs_batch, targets_batch, true_labels_batch,
          cats_batch, fid_training, last, call, out, exc, run, net>>

----------------------------------------------------------------------------
(* Bounds of the model *)

MaxDays == 4
MaxSeqLen == 3
MaxBatch == 2
HiddenSize == 2
LongDays == 17
NumTheta == 2
MaxEpochs == 2
MaxBatches == 3
MaxAcc == 3
MaxStep == 2
MaxEm == 2

(* Program constants *)

max_choice_len == 12
FidBatchSize == 16
DefaultMaxSeqLen == 128

----------------------------------------------------------------------------
(* Float arithmetic, as exact rationals *)

Abs(x) == IF x < 0 THEN -x ELSE x

Min(a, b) == IF a < b THEN a ELSE b

Max(a, b) == IF a > b THEN a ELSE b

RECURSIVE GCD(_, _)
GCD(a, b) == IF b = 0 THEN a ELSE GCD(b, a % b)

\* n / d in lowest terms for d > 0; for d = 0 an infinity, or not-a-number when
\* n = 0 too
Rat(n, d) ==
    IF d = 0 THEN <<IF n > 0 THEN 1 ELSE IF n < 0 THEN -1 ELSE 0, 0>>
    ELSE LET g == GCD(Abs(n), d) IN <<n \div g, d \div g>>

FloatOfInt(n) == <<n, 1>>

\* over the least common denominator, to keep the integers small; a sum with an
\* infinity is that infinity, unless the other is the opposite one
RAdd(a, b) ==
    IF a[2] > 0 /\ b[2] > 0
    THEN LET g == GCD(a[2], b[2])
         IN  Rat(a[1] * (b[2] \div g) + b[1] * (a[2] \div g), (a[2] \div g) * b[2])
    ELSE IF a[2] > 0 THEN b
    ELSE IF b[2] > 0 THEN a
    ELSE IF a = b THEN a
    ELSE <<0, 0>>

\* a / b for a finite b > 0
RDiv(a, b) == Rat(a[1] * b[2], a[2] * b[1])

RHalf(a) == Rat(a[1], 2 * a[2])

RECURSIVE RSum(_)
RSum(s) == IF s = <<>> THEN <<0, 1>> ELSE RAdd(Head(s), RSum(Tail(s)))

\* A string the code looks into (an answer, a day's target) is the sequence of the
\* code points of its characters, so that len, slicing, ord and float work on it as
\* on a Python str; a string the code only compares or passes on is written as a
\* literal.  Str gives the code points of the literals of the data sample.
Str(s) ==
    CASE s = "yes" -> <<121, 101, 115>>
      [] s = "no" -> <<110, 111>>
      [] s = "Yes" -> <<89, 101, 115>>
      [] s = "No" -> <<78, 111>>
      [] s = "A" -> <<65>>
      [] s = "B" -> <<66>>
      [] s = "M" -> <<77>>
      [] s = "0.25" -> <<48, 46, 50, 53>>
      [] s = "0.6" -> <<48, 46, 54>>
      [] s = "0.7" -> <<48, 46, 55>>
      [] s = "0.9" -> <<48, 46, 57>>
      [] s = "0.3" -> <<48, 46, 51>>
      [] s = "0.5" -> <<48, 46, 53>>
      [] s = "0.1" -> <<48, 46, 49>>
      [] s = "\n" -> <<10>>
      [] s = "" -> <<>>

\* ord(c) of a string of length 1
ord(c) == c[1]

\* each is followed by its digits 1 to 9
DigitZeros ==
    { 48, 1632, 1776, 1984, 2406, 2534, 2662, 2790, 2918, 3046, 3174, 3302, 3430,
      3558, 3664, 3792, 3872, 4160, 4240, 6112, 6160, 6470, 6608, 6784, 6800, 6992,
      7088, 7232, 7248, 42528, 43216, 43264, 43472, 43504, 43600, 44016, 65296,
      66720, 68912, 69734, 69872, 69942, 70096, 70384, 70736, 70864, 71248, 71360,
      71472, 71904, 72016, 72784, 73040, 73120, 92768, 92864, 93008, 120782, 120792,
      120802, 120812, 120822, 123200, 123632, 125264, 130032 }

\* the characters float takes for a blank
Whitespace ==
    { 9, 10, 11, 12, 13, 32, 133, 160, 5760, 8192, 8193, 8194, 8195, 8196, 8197,
      8198, 8199, 8200, 8201, 8202, 8232, 8233, 8239, 8287, 12288 }

\* a Unicode decimal digit
IsDigit(c) == \E z \in DigitZeros : z <= c /\ c <= z + 9

\* the number a digit denotes
DigitValue(c) == c - (CHOOSE z \in DigitZeros : z <= c /\ c <= z + 9)

\* the number the ASCII digits of a group denote; its underscores do not count
RECURSIVE DigitsValue(_)
DigitsValue(cs) ==
    IF cs = <<>> THEN 0
    ELSE IF cs[Len(cs)] = 95 THEN DigitsValue(SubSeq(cs, 1, Len(cs) - 1))
    ELSE 10 * DigitsValue(SubSeq(cs, 1, Len(cs) - 1)) + (cs[Len(cs)] - 48)

\* float of the ASCII characters left after the blanks are stripped: an optional
\* sign, then inf, infinity or nan in any case, or a decimal literal: digits with
\* at most one point and at least one digit, then an optional exponent after e or
\* E; a group of digits may have single underscores between its digits.  The
\* infinities are <<1, 0>> and <<-1, 0>>, not-a-number is <<0, 0>>.
FloatOfChars(cs) ==
    LET \* the position of the first character that is in the set, 0 when none is
        FirstIndex(xs, set) ==
            LET marks == { k \in 1..Len(xs) : xs[k] \in set }
            IN  IF marks = {} THEN 0 ELSE CHOOSE k \in marks : \A j \in marks : k <= j
        IsDigitGroup(xs) ==
            /\ xs # <<>>
            /\ \A k \in 1..Len(xs) : xs[k] \in 48..57 \/ xs[k] = 95
            /\ xs[1] # 95 /\ xs[Len(xs)] # 95
            /\ \A k \in 1..(Len(xs) - 1) : ~(xs[k] = 95 /\ xs[k + 1] = 95)
        Signed(xs) == xs # <<>> /\ xs[1] \in {43, 45}
        SignOf(xs) == IF Signed(xs) /\ xs[1] = 45 THEN -1 ELSE 1
        Unsigned(xs) == IF Signed(xs) THEN Tail(xs) ELSE xs
        Lower(c) == IF c \in 65..90 THEN c + 32 ELSE c
        \* the digits before the point, those after it, and the exponent
        Parts(body) ==
            CHOOSE parts \in
                UNION { { [int |-> IF dot = 0 THEN SubSeq(body, 1, e - 1)
                                  ELSE SubSeq(body, 1, dot - 1),
                           frac |-> IF dot = 0 THEN <<>>
                                    ELSE SubSeq(body, dot + 1, e - 1),
                           has_exp |-> e <= Len(body),
                           exp |-> SubSeq(body, e + 1, Len(body))] :
                            dot \in {FirstIndex(SubSeq(body, 1, e - 1), {46})} } :
                        e \in { IF FirstIndex(body, {101, 69}) = 0 THEN Len(body) + 1
                                ELSE FirstIndex(body, {101, 69}) } } : TRUE
        Value(sign, parts) ==
            CHOOSE v \in
                { IF shift >= 0 THEN <<n * 10 ^ shift, 1>> ELSE Rat(n, 10 ^ (-shift)) :
                    n \in {sign * DigitsValue(parts.int \o parts.frac)},
                    shift \in {SignOf(parts.exp) * DigitsValue(Unsigned(parts.exp))
                               - Cardinality({ k \in 1..Len(parts.frac) :
                                                 parts.frac[k] # 95 })} } : TRUE
        Decimal(sign, parts) ==
            IF /\ parts.int # <<>> \/ parts.frac # <<>>
               /\ parts.int # <<>> => IsDigitGroup(parts.int)
               /\ parts.frac # <<>> => IsDigitGroup(parts.frac)
               /\ parts.has_exp => IsDigitGroup(Unsigned(parts.exp))
            THEN [exc |-> "none", val |-> Value(sign, parts)]
            ELSE [exc |-> "ValueError", val |-> <<0, 1>>]
        Literal(sign, body) ==
            IF body \in {<<105, 110, 102>>, <<105, 110, 102, 105, 110, 105, 116, 121>>}
            THEN [exc |-> "none", val |-> <<sign, 0>>]
            ELSE IF body = <<110, 97, 110>> THEN [exc |-> "none", val |-> <<0, 0>>]
            ELSE CHOOSE r \in { Decimal(sign, parts) : parts \in {Parts(body)} } : TRUE
    IN  CHOOSE r \in
            { Literal(SignOf(cs), body) :
                body \in {[k \in 1..Len(Unsigned(cs)) |-> Lower(Unsigned(cs)[k])]} } :
            TRUE

\* float(s) of a string: the value, or the ValueError of a string that is no
\* literal.  Every decimal digit is read as its ASCII digit and every blank as a
\* space, and the blanks at the two ends are dropped.
float(s) ==
    LET ToAscii(c) == IF c < 128 THEN (IF c \in 9..13 THEN 32 ELSE c)
                      ELSE IF IsDigit(c) THEN 48 + DigitValue(c)
                      ELSE IF c \in Whitespace THEN 32
                      ELSE c
        Stripped(cs) ==
            LET marks == { k \in 1..Len(cs) : cs[k] # 32 }
            IN  IF marks = {} THEN <<>>
                ELSE SubSeq(cs, CHOOSE k \in marks : \A j \in marks : k <= j,
                                CHOOSE k \in marks : \A j \in marks : k >= j)
    IN  CHOOSE r \in { FloatOfChars(cs) :
                         cs \in {Stripped([k \in 1..Len(s) |-> ToAscii(s[k])])} } : TRUE

PadValue == <<-1, 1>>

DayPadValue == <<-2, 1>>

----------------------------------------------------------------------------
(* Records: the shape documented in ForecastingDataset.__init__ *)

NoneCtxs == [isNone |-> TRUE, docs |-> <<>>]

EmptyCtxs == [isNone |-> FALSE, docs |-> <<>>]

DocCtxs(i) == [isNone |-> FALSE, docs |-> <<[id |-> i, title |-> "t", text |-> "x"]>>]

ScalarSeries ==
    <<Str("0.6"), Str("0.7"), Str("0.9"), Str("0.3"), Str("0.5"), Str("0.1")>>

Letters == <<"A", "B", "C", "D", "E", "F", "G", "H", "I", "J", "K", "L", "M">>

\* raw crowd score of choice j (1-based) on day i (1-based) of a question with nc choices
RawScore(i, j, nc) ==
    CASE i % 5 = 1 -> (IF j = 2 THEN 2 ELSE IF j \in {1, 3} THEN 1 ELSE 0)
      [] i % 5 = 2 -> 1
      [] i % 5 = 3 -> (IF j = 1 THEN 3 ELSE 1)
      [] i % 5 = 4 -> (IF j = nc THEN 1 ELSE 0)
      [] i % 5 = 0 -> (IF j = 1 THEN 1 ELSE IF j = 2 THEN 3 ELSE 0)

ScalarTargetOf(i) ==
    [isList |-> FALSE, str |-> ScalarSeries[((i - 1) % Len(ScalarSeries)) + 1], list |-> <<>>]

ListTargetOf(i, nc) ==
    [isList |-> TRUE, str |-> <<>>, list |-> [j \in 1..nc |-> RawScore(i, j, nc)]]

ListChoices(items) == [isDict |-> FALSE, items |-> items]

DictChoices(keys) == [isDict |-> TRUE, items |-> keys]

Kinds ==
    { [choices |-> DictChoices(<<"min", "max">>), answer |-> "0.25", listTargets |-> FALSE],
      [choices |-> ListChoices(<<"yes", "no">>), answer |-> "yes", listTargets |-> FALSE],
      [choices |-> ListChoices(<<"yes", "no">>), answer |-> "no", listTargets |-> FALSE],
      [choices |-> ListChoices(<<"Yes", "No">>), answer |-> "No", listTargets |-> FALSE],
      [choices |-> ListChoices(<<"yes", "no">>), answer |-> "A", listTargets |-> TRUE],
      [choices |-> ListChoices(<<"yes", "maybe">>), answer |-> "yes", listTargets |-> FALSE],
      [choices |-> ListChoices(<<"left", "right">>), answer |-> "B", listTargets |-> TRUE],
      [choices |-> ListChoices(<<"c1", "c2", "c3">>), answer |-> "B", listTargets |-> TRUE],
      [choices |-> ListChoices(<<"c1", "c2", "c3">>), answer |-> "\n", listTargets |-> TRUE],
      [choices |-> ListChoices(Letters), answer |-> "A", listTargets |-> TRUE],
      [choices |-> ListChoices(Letters), answer |-> "M", listTargets |-> TRUE] }

\* which days carry documents; the days that do not all carry None, or all carry []
Patterns(n) ==
    { [hasDocs |-> m, lack |-> l] : m \in [1..n -> BOOLEAN], l \in {"None", "empty"} }

MkDay(kind, pat, i) ==
    [date   |-> i,
     target |-> IF kind.listTargets THEN ListTargetOf(i, Len(kind.choices.items))
                ELSE ScalarTargetOf(i),
     ctxs   |-> IF pat.hasDocs[i] THEN DocCtxs(i)
                ELSE IF pat.lack = "None" THEN NoneCtxs ELSE EmptyCtxs]

MkRecord(kind, n, pat) ==
    [question |-> "q",
     choices  |-> kind.choices,
     answers  |-> <<Str(kind.answer)>>,
     targets  |-> [i \in 1..n |-> MkDay(kind, pat, i)]]

AllDocs(n) == [hasDocs |-> [i \in 1..n |-> TRUE], lack |-> "None"]

Records ==
    { MkRecord(k, n, p) : k \in Kinds, n \in 0..MaxDays, p \in Patterns(MaxDays) }
    \cup { MkRecord(k, LongDays, AllDocs(LongDays)) :
             k \in {kk \in Kinds : kk.answer = "yes"} }

PairKinds ==
    { k \in Kinds : \/ k.choices.isDict
                    \/ k.choices.items = <<"yes", "no">> /\ k.answer = "yes"
                    \/ Len(k.choices.items) = 3 /\ k.answer = "B" }

PairRecords ==
    { MkRecord(k, n, AllDocs(n)) : k \in PairKinds, n \in 1..MaxDays }

Datasets ==
    { <<r>> : r \in Records } \cup { <<r1, r2>> : r1 \in PairRecords, r2 \in PairRecords }

Opts ==
    [adjust_targets : BOOLEAN, finetune_encoder : BOOLEAN,
     max_seq_len : (0..MaxSeqLen) \cup {DefaultMaxSeqLen}]

----------------------------------------------------------------------------
(* ForecastingDataset.get_category *)

tf_choices == {"yes", "no", "Yes", "No"}

Raised(e) == [exc |-> e, cat |-> -1]

\* the conditions are evaluated left to right and short-circuit, so an index that
\* does not exist raises only when the evaluation reaches it
get_category(example) ==
    LET items == example.choices.items IN
    IF example.choices.isDict THEN [exc |-> "none", cat |-> 2]
    ELSE IF Len(items) < 1 THEN Raised("IndexError")
    ELSE IF items[1] \notin tf_choices /\ Len(items) < 2 THEN Raised("IndexError")
    ELSE IF \/ (items[1] \notin tf_choices /\ items[2] \notin tf_choices)
            \/ Len(items) > 2
         THEN [exc |-> "none", cat |-> 1]
    ELSE IF Len(example.targets) < 1 THEN Raised("IndexError")
    ELSE IF example.targets[1].target.isList THEN [exc |-> "none", cat |-> 1]
    ELSE [exc |-> "none", cat |-> 0]

----------------------------------------------------------------------------
(* ForecastingDataset.__getitem__ *)

STR2BOOL ==
    [s \in {Str("yes"), Str("Yes"), Str("no"), Str("No")} |->
       IF s \in {Str("yes"), Str("Yes")} THEN 1 ELSE 0]

\* ord(c) - ord('A')
OrdMinusA(c) == ord(c) - ord(Str("A"))

\* lines 622-627: the true label, as a float, or the exception the lookup raises
true_target_of(example, cat) ==
    IF Len(example.answers) = 0 THEN [exc |-> "IndexError", val |-> <<0, 1>>]
    ELSE
    LET a == example.answers[1] IN
    CASE cat = 0 -> IF a \in DOMAIN STR2BOOL
                    THEN [exc |-> "none", val |-> FloatOfInt(STR2BOOL[a])]
                    ELSE [exc |-> "KeyError", val |-> <<0, 1>>]
      [] cat = 2 -> float(a)
      [] cat = 1 -> IF Len(a) = 1
                    THEN [exc |-> "none", val |-> FloatOfInt(OrdMinusA(a))]
                    ELSE [exc |-> "TypeError", val |-> <<0, 1>>]

\* lines 638-641
ScalarTargetIgnoringAdjust(t, true_target, adjust) == <<t>>

ScalarTarget(t, true_target, adjust) ==
    IF adjust THEN <<RHalf(RAdd(t, true_target))>> ELSE <<t>>

\* s[:k] for k >= 0
PyPrefix(s, k) == SubSeq(s, 1, Min(k, Len(s)))

\* lines 643-647; position i of the comprehension is 0-based
ChoiceTarget(raw, true_target, length, adjust) ==
    LET targets_mc == [j \in 1..Len(PyPrefix(raw, length)) |->
                          FloatOfInt(PyPrefix(raw, length)[j])]
        total == RSum(targets_mc)
        t == [j \in 1..Len(targets_mc) |-> RDiv(targets_mc[j], total)]
    IN  IF targets_mc # <<>> /\ total[1] = 0
        THEN [exc |-> "ZeroDivisionError", row |-> <<>>]
        ELSE IF adjust
        THEN [exc |-> "none",
              row |-> [j \in 1..Len(t) |->
                         IF FloatOfInt(j - 1) = true_target
                         THEN RHalf(RAdd(t[j], <<1, 1>>))
                         ELSE RHalf(t[j])]]
        ELSE [exc |-> "none", row |-> t]

\* line 643 on a target that is a string: its first `length` characters, each
\* converted by float
CharScores(str, length) ==
    CHOOSE scores \in
        { IF \A j \in 1..Len(cs) : IsDigit(cs[j])
          THEN [exc |-> "none", raw |-> [j \in 1..Len(cs) |-> DigitValue(cs[j])]]
          ELSE [exc |-> "ValueError", raw |-> <<>>] :
            cs \in {PyPrefix(str, length)} } : TRUE

\* lines 637-648: the target row of a day that has documents
day_target(day, cat, true_target, length, adjust) ==
    IF cat = 1
    THEN IF day.target.isList
         THEN ChoiceTarget(day.target.list, true_target, length, adjust)
         ELSE LET scores == CharScores(day.target.str, length) IN
              IF scores.exc # "none" THEN [exc |-> scores.exc, row |-> <<>>]
              ELSE ChoiceTarget(scores.raw, true_target, length, adjust)
    ELSE IF day.target.isList
         THEN [exc |-> "TypeError", row |-> <<>>]
         ELSE CHOOSE tr \in
                { IF t.exc # "none" THEN [exc |-> t.exc, row |-> <<>>]
                  ELSE [exc |-> "none",
                        row |-> ScalarTarget(t.val, true_target, adjust)] :
                    t \in {float(day.target.str)} } : TRUE

\* lines 650-656 and 659-664: the deep copy of a day, re-labelled, without its target
day_copy(day, id, example) ==
    [id       |-> id,
     date     |-> day.date,
     ctxs     |-> day.ctxs,
     question |-> example.question,
     answers  |-> example.answers,
     choices  |-> example.choices]

\* "not day['ctxs']": None and the empty list are both falsy
NoCtxs(day) == day.ctxs.isNone \/ day.ctxs.docs = <<>>

\* lines 629-656: the loop over the days, from day i (1-based) on.  acc.days is the
\* record's day list, which the loop writes to (line 632).
RECURSIVE day_loop(_, _, _, _, _, _, _)
day_loop(example, adjust, cat, true_target, length, i, acc) ==
    IF i > Len(acc.days) \/ acc.exc # "none" THEN acc
    ELSE LET day == acc.days[i] IN
         IF NoCtxs(day)
         THEN day_loop(example, adjust, cat, true_target, length, i + 1,
                       [acc EXCEPT !.days[i].ctxs = EmptyCtxs])
         ELSE LET tr == day_target(day, cat, true_target, length, adjust) IN
              IF tr.exc # "none"
              THEN [acc EXCEPT !.exc = tr.exc, !.has_ctxs = TRUE]
              ELSE day_loop(example, adjust, cat, true_target, length, i + 1,
                            [acc EXCEPT !.has_ctxs = TRUE,
                                        !.targets = Append(@, tr.row),
                                        !.fid_examples =
                                            Append(@, day_copy(day, i - 1, example))])

\* lines 665-668: the target row of the fallback day
FallbackTarget(cat, true_target, length) ==
    IF cat = 1
    THEN [j \in 1..length |->
            IF FloatOfInt(j - 1) = true_target THEN <<1, 1>> ELSE <<0, 1>>]
    ELSE <<true_target>>

\* lines 658-669: after the loop.  "day" is the loop variable, still bound to the
\* last day of the list; it was never bound when the list is empty.
fallback(example, cat, true_target, length, acc) ==
    IF acc.exc # "none" \/ acc.has_ctxs THEN acc
    ELSE IF Len(acc.days) = 0 THEN [acc EXCEPT !.exc = "UnboundLocalError"]
    ELSE [acc EXCEPT !.targets = Append(@, FallbackTarget(cat, true_target, length)),
                     !.fid_examples =
                         Append(@, day_copy(acc.days[Len(acc.days)], 0, example))]

\* s[-k:] for k >= 0: -0 is 0, so k = 0 keeps the whole list
PySuffix(s, k) ==
    LET start == IF k = 0 THEN 0 ELSE Max(Len(s) - k, 0)
    IN  SubSeq(s, start + 1, Len(s))

\* line 673
TruncFidExamples(fid_examples, max_seq_len) == PySuffix(fid_examples, max_seq_len)

TruncTargetsKeepAll(targets, max_seq_len) == targets

TruncTargets(targets, max_seq_len) == PySuffix(targets, max_seq_len)

\* a row extended to the given width with the given value
PadRowWithZero(row, width, value) ==
    [j \in 1..width |-> IF j <= Len(row) THEN row[j] ELSE <<0, 1>>]

PadRow(row, width, value) ==
    [j \in 1..width |-> IF j <= Len(row) THEN row[j] ELSE value]

RECURSIVE MaxLen(_)
MaxLen(rows) == IF rows = <<>> THEN 0 ELSE Max(Len(Head(rows)), MaxLen(Tail(rows)))

\* lines 674-675: pad_sequence(targets, batch_first=True, padding_value=-1.)
pad_targets(rows) == [r \in 1..Len(rows) |-> PadRow(rows[r], MaxLen(rows), PadValue)]

\* lines 676-677: the [rows, max_choice_len] tensor of -1 with the targets copied in
targets_pad_of(targets) ==
    [r \in 1..Len(targets) |-> PadRow(targets[r], max_choice_len, PadValue)]

NoItem ==
    [exc |-> "none", fid_examples |-> <<>>, rows |-> <<>>, targets |-> <<>>,
     targets_pad |-> <<>>, true_target |-> <<0, 1>>, cat |-> -1, days |-> <<>>]

\* lines 658-677: the item built from what the loop over the days left
item_of(o, cat, true_target, acc) ==
    LET fid_examples == TruncFidExamples(acc.fid_examples, o.max_seq_len)
        rows == TruncTargets(acc.targets, o.max_seq_len)
        targets == pad_targets(rows)
    IN  IF acc.exc # "none"
        THEN [NoItem EXCEPT !.exc = acc.exc, !.days = acc.days, !.cat = cat,
                            !.true_target = true_target]
        ELSE IF Len(acc.targets) # Len(acc.fid_examples)
        THEN [NoItem EXCEPT !.exc = "AssertionError", !.days = acc.days, !.cat = cat,
                            !.true_target = true_target]
        ELSE [exc |-> "none", fid_examples |-> fid_examples, rows |-> rows,
              targets |-> targets, targets_pad |-> targets_pad_of(targets),
              true_target |-> true_target, cat |-> cat, days |-> acc.days]

\* lines 628-677: the method from the loop over the days on
days_item(example, o, cat, true_target) ==
    LET length == Min(Len(example.choices.items), max_choice_len)
        acc0 == [fid_examples |-> <<>>, targets |-> <<>>, has_ctxs |-> FALSE,
                 days |-> example.targets, exc |-> "none"]
        looped == day_loop(example, o.adjust_targets, cat, true_target, length, 1, acc0)
    IN  CHOOSE r \in { item_of(o, cat, true_target, acc) :
                         acc \in {fallback(example, cat, true_target, length, looped)} } :
            TRUE

\* lines 621-677: the method once the category is known
category_item(example, o, cat) ==
    CHOOSE r \in { IF tt.exc # "none"
                   THEN [NoItem EXCEPT !.exc = tt.exc, !.days = example.targets,
                                       !.cat = cat]
                   ELSE days_item(example, o, cat, tt.val) :
                     tt \in {true_target_of(example, cat)} } : TRUE

\* the whole method.  fid_examples is the content of the returned FiDDataset, rows
\* the list "targets" of line 673, targets the tensor of line 675, days the record's
\* day list as the call leaves it.
getitem(example, o) ==
    CHOOSE r \in { IF c.exc # "none"
                   THEN [NoItem EXCEPT !.exc = c.exc, !.days = example.targets]
                   ELSE category_item(example, o, c.cat) :
                     c \in {get_category(example)} } : TRUE

----------------------------------------------------------------------------
(* get_fid_outputs *)

\* line 718
EffectiveModeAsRequested(mode, finetune_encoder) == mode

EffectiveMode(mode, finetune_encoder) == IF ~finetune_encoder THEN "eval" ELSE mode

\* the encoder's last-layer hidden state for one day sub-example, flattened (line 736)
FidHidden(ex) == [k \in 1..HiddenSize |-> ex.id + k]

\* lines 704-710: SequentialSampler and a DataLoader of batch size 16, drop_last=False
RECURSIVE MicroBatches(_)
MicroBatches(dataset) ==
    IF dataset = <<>> THEN <<>>
    ELSE <<PyPrefix(dataset, FidBatchSize)>>
         \o MicroBatches(SubSeq(dataset, FidBatchSize + 1, Len(dataset)))

\* lines 729-736: one forward pass; its result carries gradient iff it ran with
\* gradients enabled
Forward(mb, grad_enabled) ==
    [h |-> [k \in 1..Len(mb) |-> FidHidden(mb[k])], requires_grad |-> grad_enabled]

\* line 742: torch.cat(outputs, dim=0)
RECURSIVE CatH(_)
CatH(outputs) == IF outputs = <<>> THEN <<>> ELSE Head(outputs).h \o CatH(Tail(outputs))

NoOutputs == [h |-> <<>>, requires_grad |-> FALSE]

\* the whole function: the encoder's training flag after the call, the grad mode of
\* each forward pass, and the returned tensor
get_fid_outputs(dataset, o, mode) ==
    LET m == EffectiveMode(mode, o.finetune_encoder)
        mbs == MicroBatches(dataset)
        outputs == [k \in 1..Len(mbs) |-> Forward(mbs[k], m = "train")]
        cat_grad == \E k \in 1..Len(outputs) : outputs[k].requires_grad
    IN  IF outputs = <<>>
        THEN [exc |-> "RuntimeError", training |-> (m = "train"), grads |-> <<>>,
              outputs |-> NoOutputs]
        ELSE [exc |-> "none", training |-> (m = "train"),
              grads |-> [k \in 1..Len(outputs) |-> (m = "train")],
              outputs |-> [h |-> CatH(outputs),
                           requires_grad |-> IF m = "eval" THEN FALSE ELSE cat_grad]]

----------------------------------------------------------------------------
(* forecaster_collate_fn *)

ZeroVector(width) == [k \in 1..width |-> 0]

\* line 756: pad_sequence(examples, batch_first=True, padding_value=0.)
pad_examples(examples) ==
    LET n == MaxLen(examples)
        width == IF n = 0 THEN 0 ELSE Len((CHOOSE e \in { examples[i] : i \in 1..Len(examples) } : Len(e) > 0)[1])
    IN  [i \in 1..Len(examples) |->
           [d \in 1..n |-> IF d <= Len(examples[i]) THEN examples[i][d]
                           ELSE ZeroVector(width)]]

\* line 757: pad_sequence(labels, batch_first=True, padding_value=-2.)
pad_labels(labels) ==
    LET n == MaxLen(labels) IN
    [i \in 1..Len(labels) |->
       [d \in 1..n |-> IF d <= Len(labels[i]) THEN labels[i][d]
                       ELSE [j \in 1..max_choice_len |-> DayPadValue]]]

\* lines 758-760: all ones, then zero from position seq_len on (positions 0-based)
CollateMaskOffByOne(n, seq_lengths) ==
    [i \in 1..Len(seq_lengths) |-> [d \in 1..n |-> (d - 1) <= seq_lengths[i]]]

CollateMask(n, seq_lengths) ==
    [i \in 1..Len(seq_lengths) |-> [d \in 1..n |-> (d - 1) < seq_lengths[i]]]

NoCollated ==
    [exc |-> "none", X |-> <<>>, mask |-> <<>>, labels |-> <<>>, true_labels |-> <<>>,
     cats |-> <<>>, seq_ends |-> <<>>]

forecaster_collate_fn(examples, labels, true_labels, cats) ==
    LET seq_lengths == [i \in 1..Len(labels) |-> Len(labels[i])]
        X == pad_examples(examples)
        padded == pad_labels(labels)
        mask == CollateMask(MaxLen(labels), seq_lengths)
        seq_ends == [i \in 1..Len(seq_lengths) |-> seq_lengths[i] - 1]
    IN  IF Len(X) # Len(mask) \/ MaxLen(examples) # MaxLen(labels)
        THEN [NoCollated EXCEPT !.exc = "AssertionError"]
        ELSE [exc |-> "none", X |-> X, mask |-> mask, labels |-> padded,
              true_labels |-> true_labels, cats |-> cats, seq_ends |-> seq_ends]

----------------------------------------------------------------------------
(* The pipeline of train() lines 84-103 and evaluate() lines 374-385 *)

NoCall == [mode |-> "none", dataset |-> <<>>, before |-> FALSE,
           result |-> [exc |-> "none", training |-> FALSE, grads |-> <<>>,
                       outputs |-> NoOutputs]]

NoArgs == [examples |-> <<>>, labels |-> <<>>, true_labels |-> <<>>, cats |-> <<>>]

NoLast == [index |-> 0, before |-> <<>>, result |-> NoItem]

NoOut == [args |-> NoArgs, result |-> NoCollated]

\* train() is not running
NoTrain == [pc |-> "off"]

\* no batch has gone through the forecaster
NoNet == [pc |-> "off"]

Init ==
    /\ data \in Datasets
    /\ opt \in Opts
    /\ batch = <<>>
    /\ fid_outputs_batch = <<>>
    /\ targets_batch = <<>>
    /\ true_labels_batch = <<>>
    /\ cats_batch = <<>>
    /\ fid_training = TRUE
    /\ last = NoLast
    /\ call = NoCall
    /\ out = NoOut
    /\ exc = "none"
    /\ run = NoTrain
    /\ net = NoNet

\* the DataLoader calls dataset[i] for the next index of the batch it is assembling;
\* the sampler yields each index once.  The previous iteration's locals are gone.
GetItem(i) ==
    /\ exc = "none"
    /\ fid_outputs_batch = <<>>
    /\ Len(batch) < MaxBatch
    /\ \A k \in 1..Len(batch) : batch[k].index # i
    /\ \E r \in {getitem(data[i], opt)} :
         /\ data' = [data EXCEPT ![i].targets = r.days]
         /\ last' = [index |-> i, before |-> data[i], result |-> r]
         /\ exc' = r.exc
         /\ batch' = IF r.exc = "none"
                     THEN Append(batch, [index |-> i, fid_examples |-> r.fid_examples,
                                         targets_pad |-> r.targets_pad,
                                         true_target |-> r.true_target, cat |-> r.cat])
                     ELSE batch
    /\ out' = NoOut
    /\ UNCHANGED <<opt, fid_outputs_batch, targets_batch, true_labels_batch, cats_batch,
                   fid_training, call, run, net>>

\* one iteration of the loop over the items of the batch (train: lines 91-97 with
\* mode 'train'; evaluate: lines 376-382 with mode 'eval'); when get_fid_outputs
\* raises, the appends that follow it are not reached
EncodeItem(mode) ==
    /\ exc = "none"
    /\ Len(fid_outputs_batch) < Len(batch)
    /\ fid_outputs_batch # <<>> => mode = call.mode
    /\ LET item == batch[Len(fid_outputs_batch) + 1]
           r == get_fid_outputs(item.fid_examples, opt, mode)
       IN  /\ fid_training' = r.training
           /\ call' = [mode |-> mode, dataset |-> item.fid_examples,
                       before |-> fid_training, result |-> r]
           /\ exc' = r.exc
           /\ IF r.exc = "none"
              THEN /\ fid_outputs_batch' = Append(fid_outputs_batch, r.outputs)
                   /\ targets_batch' = Append(targets_batch, item.targets_pad)
                   /\ true_labels_batch' = Append(true_labels_batch, item.true_target)
                   /\ cats_batch' = Append(cats_batch, item.cat)
              ELSE UNCHANGED <<fid_outputs_batch, targets_batch, true_labels_batch,
                               cats_batch>>
    /\ UNCHANGED <<data, opt, batch, last, out, run, net>>

\* train: line 102; evaluate: line 384.  The next iteration starts with fresh lists.
Collate ==
    /\ exc = "none"
    /\ batch # <<>>
    /\ Len(fid_outputs_batch) = Len(batch)
    /\ LET args == [examples |-> [i \in 1..Len(fid_outputs_batch) |->
                                     fid_outputs_batch[i].h],
                    labels |-> targets_batch,
                    true_labels |-> true_labels_batch,
                    cats |-> cats_batch]
           r == forecaster_collate_fn(args.examples, args.labels, args.true_labels,
                                      args.cats)
       IN  /\ out' = [args |-> args, result |-> r]
           /\ exc' = r.exc
    /\ batch' = <<>>
    /\ fid_outputs_batch' = <<>>
    /\ targets_batch' = <<>>
    /\ true_labels_batch' = <<>>
    /\ cats_batch' = <<>>
    /\ last' = NoLast
    /\ call' = NoCall
    /\ UNCHANGED <<data, opt, fid_training, run, net>>

\* "if day['ctxs']" holds for some day of the record
HasDocs(example) == \E i \in 1..Len(example.targets) : ~NoCtxs(example.targets[i])

\* lines 581-593: data_by_class is filled nowhere (lines 567-571 are comments), so
\* both loops run over nothing and the dataset is left empty
over_sample(dataset) == <<>>

\* lines 563-579: the records that have a day with documents, in their order
pre_filter(dataset, with_over_sample) ==
    IF with_over_sample THEN over_sample(SelectSeq(dataset, HasDocs))
    ELSE SelectSeq(dataset, HasDocs)

\* a call of the public method pre_filter between two batches (no call of it is
\* left in train() or __init__: line 561 is a comment)
PreFilter(with_over_sample) ==
    /\ exc = "none"
    /\ batch = <<>>
    /\ data' = pre_filter(data, with_over_sample)
    /\ UNCHANGED <<opt, batch, fid_outputs_batch, targets_batch, true_labels_batch,
                   cats_batch, fid_training, last, call, out, exc, run, net>>

\* a call of the public method over_sample between two batches (line 74 is a
\* comment)
OverSample ==
    /\ exc = "none"
    /\ batch = <<>>
    /\ data' = over_sample(data)
    /\ UNCHANGED <<opt, batch, fid_outputs_batch, targets_batch, true_labels_batch,
                   cats_batch, fid_training, last, call, out, exc, run, net>>

Next ==
    \/ \E i \in 1..Len(data) : GetItem(i)
    \/ \E mode \in {"train", "eval"} : EncodeItem(mode)
    \/ Collate
    \/ \E with_over_sample \in BOOLEAN : PreFilter(with_over_sample)
    \/ OverSample

Spec == Init /\ [][Next]_vars

----------------------------------------------------------------------------
(* Vocabulary of the properties, read off the record a call was made on *)

Called == last.index > 0

Returned == Called /\ last.result.exc = "none"

\* the days (1-based) of a record that have documents
DocDays(rec) ==
    { i \in 1..Len(rec.targets) :
        ~rec.targets[i].ctxs.isNone /\ rec.targets[i].ctxs.docs # <<>> }

\* the number of days the loop and the fallback retain, before truncation
Retained(rec) == IF DocDays(rec) = {} THEN 1 ELSE Cardinality(DocDays(rec))

\* the k-th smallest element of a finite set of integers
RECURSIVE Kth(_, _)
Kth(S, k) ==
    LET m == CHOOSE x \in S : \A y \in S : x <= y
    IN  IF k = 1 THEN m ELSE Kth(S \ {m}, k - 1)

NumChoices(rec) == Len(rec.choices.items)

\* a = b * c / d as rationals, by cross-multiplication
RatIs(a, n, d) == a[1] * d = n * a[2]

Collated == out.result.X # <<>>

----------------------------------------------------------------------------
(* C1: for every record with at least one day that has documents, a call of
   __getitem__ that returns gives as many day sub-examples as target rows, before
   and after truncation: the length of the returned FiD dataset equals the number of
   rows of the returned padded target tensor. *)
C1_SameCount ==
    (Returned /\ DocDays(last.before) # {})
        => /\ Len(last.result.fid_examples) = Len(last.result.targets_pad)
           /\ Len(last.result.fid_examples) = Len(last.result.rows)

\* a call on a record with more days with documents than max_seq_len keeps
C1_Witness ==
    /\ Returned
    /\ opt.max_seq_len >= 1
    /\ Cardinality(DocDays(last.before)) > opt.max_seq_len
    /\ Cardinality(DocDays(last.before)) < Len(last.before.targets)
    /\ Len(last.result.fid_examples) = opt.max_seq_len

(* C2: every record, whatever its day list (empty, or with no day that has
   documents), yields at least one day sub-example from __getitem__ without raising;
   so every example of a collated batch has at least one valid day and
   seq_ends[i] >= 0. *)
C2_AlwaysOneDay ==
    /\ (Called /\ DocDays(last.before) = {})
          => (last.result.exc = "none" /\ Len(last.result.fid_examples) >= 1)
    /\ Collated => \A i \in 1..Len(out.result.seq_ends) : out.result.seq_ends[i] >= 0

(* C3: for a record in which no day has documents, __getitem__ produces exactly one
   fallback sub-example, with id 0, whose target row is the indicator of the true
   label: [float(true_label)] for BinaryTF and Regression, and for MultiChoice a
   vector over the first min(num_choices, max_choice_len) choices with exactly one
   entry 1, at the true-choice index, and 0 elsewhere. *)
C3_FallbackIndicator ==
    (Returned /\ DocDays(last.before) = {})
        => /\ Len(last.result.fid_examples) = 1
           /\ last.result.fid_examples[1].id = 0
           /\ Len(last.result.rows) = 1
           /\ LET row == last.result.rows[1]
                  tl == last.result.true_target
              IN  IF last.result.cat = 1
                  THEN /\ Len(row) = Min(NumChoices(last.before), max_choice_len)
                       /\ Cardinality({ j \in 1..Len(row) : row[j] = <<1, 1>> }) = 1
                       /\ \A j \in 1..Len(row) :
                            row[j] = IF <<j - 1, 1>> = tl THEN <<1, 1>> ELSE <<0, 1>>
                  ELSE row = <<tl>>

\* the category the claim assigns to a record
ClaimedCategory(rec) ==
    IF rec.choices.isDict THEN 2
    ELSE IF \/ NumChoices(rec) > 2
            \/ \E j \in 1..NumChoices(rec) : rec.choices.items[j] \notin tf_choices
            \/ (Len(rec.targets) >= 1 /\ rec.targets[1].target.isList)
         THEN 1
    ELSE 0

(* C4: get_category returns Regression (2) whenever choices is a mapping; otherwise
   MultiChoice (1) whenever choices has more than 2 options, or contains a value that
   is not yes/no, or the first day's target is a list; and BinaryTF (0) otherwise. *)
C4_CategoryRule ==
    (Called /\ last.result.cat # -1) => last.result.cat = ClaimedCategory(last.before)

(* C5: for every max_seq_len >= 0 and every record with n retained days,
   __getitem__ returns exactly min(n, max_seq_len) sub-examples and target rows, the
   most recent ones in their original order. *)
C5_TruncatesToMaxSeqLen ==
    Returned
        => LET n == Retained(last.before)
               k == Min(n, opt.max_seq_len)
           IN  /\ Len(last.result.fid_examples) = k
               /\ Len(last.result.rows) = k
               /\ DocDays(last.before) # {}
                    => \A j \in 1..Len(last.result.fid_examples) :
                          j <= k => last.result.fid_examples[j].id
                                      = Kth(DocDays(last.before), n - k + j) - 1

(* C6: the tensor __getitem__ returns has shape [num_days, max_choice_len]; in each
   row the entries beyond the day's own row length are exactly -1 and the entries
   before it are the day's targets, unmodified.  In the batch forecaster_collate_fn
   builds, every target entry of example i at a day after seq_ends[i] is exactly -2,
   every hidden-vector entry at such a day is 0, and every entry at a valid day is the
   entry that was passed in. *)
C6_PaddingSentinels ==
    /\ Returned
         => /\ Len(last.result.targets_pad) = Len(last.result.fid_examples)
            /\ \A r \in 1..Len(last.result.targets_pad) :
                 /\ Len(last.result.targets_pad[r]) = max_choice_len
                 /\ \A j \in 1..max_choice_len :
                      last.result.targets_pad[r][j]
                        = IF j <= Len(last.result.rows[r]) THEN last.result.rows[r][j]
                          ELSE <<-1, 1>>
    /\ Collated
         => \A i \in 1..Len(out.result.labels) :
              /\ Len(out.result.labels[i]) = Len(out.result.X[i])
              /\ \A d \in 1..Len(out.result.labels[i]) :
                   IF d - 1 > out.result.seq_ends[i]
                   THEN /\ \A j \in 1..max_choice_len :
                             out.result.labels[i][d][j] = <<-2, 1>>
                        /\ Len(out.result.labels[i][d]) = max_choice_len
                        /\ \A k \in 1..HiddenSize : out.result.X[i][d][k] = 0
                        /\ Len(out.result.X[i][d]) = HiddenSize
                   ELSE /\ out.result.labels[i][d] = out.args.labels[i][d]
                        /\ out.result.X[i][d] = out.args.examples[i][d]

\* a batch of two examples of different lengths, one of them MultiChoice with three
\* choices: unused choice slots hold -1, the shorter example's later days are padding
C6_Witness ==
    /\ Collated
    /\ Len(out.result.labels) = 2
    /\ Len(out.args.labels[1]) < Len(out.args.labels[2])
    /\ out.result.cats[1] = 1
    /\ out.args.labels[1][1][3] # <<-1, 1>>
    /\ out.args.labels[1][1][4] = <<-1, 1>>
    /\ out.result.labels[1][Len(out.args.labels[2])][1] = <<-2, 1>>

(* C7: in every batch forecaster_collate_fn builds, mask[i, d] is True iff
   d <= seq_ends[i], seq_ends[i] is the example's original length minus 1, and the
   first two dimensions of the hidden-vector batch are the mask's shape; day counts 2
   and 4 give mask [[T,T,F,F],[T,T,T,T]] and seq_ends [1, 3]. *)
C7_MaskMatchesSeqEnds ==
    Collated
        => /\ Len(out.result.X) = Len(out.result.mask)
           /\ Len(out.result.seq_ends) = Len(out.result.mask)
           /\ \A i \in 1..Len(out.result.mask) :
                /\ Len(out.result.X[i]) = Len(out.result.mask[i])
                /\ out.result.seq_ends[i] = Len(out.args.examples[i]) - 1
                /\ \A d \in 1..Len(out.result.mask[i]) :
                     out.result.mask[i][d] <=> (d - 1 <= out.result.seq_ends[i])
           /\ (/\ Len(out.args.examples) = 2
               /\ Len(out.args.examples[1]) = 2
               /\ Len(out.args.examples[2]) = 4)
                => /\ out.result.mask = << <<TRUE, TRUE, FALSE, FALSE>>,
                                           <<TRUE, TRUE, TRUE, TRUE>> >>
                   /\ out.result.seq_ends = <<1, 3>>

\* the batch of the example: day counts 2 and 4
C7_Witness ==
    /\ Collated
    /\ Len(out.args.examples) = 2
    /\ Len(out.args.examples[1]) = 2
    /\ Len(out.args.examples[2]) = 4
    /\ out.result.mask[1] = <<TRUE, TRUE, FALSE, FALSE>>

\* the record of the example: BinaryTF, answer "yes", three days with one document
\* each and crowd targets 0.6, 0.7, 0.9
C8_ExampleRecord ==
    /\ Called
    /\ last.before.choices = ListChoices(<<"yes", "no">>)
    /\ last.before.answers = <<Str("yes")>>
    /\ Len(last.before.targets) = 3
    /\ DocDays(last.before) = {1, 2, 3}
    /\ \A i \in 1..3 : ~last.before.targets[i].target.isList
    /\ [i \in 1..3 |-> last.before.targets[i].target.str]
         = <<Str("0.6"), Str("0.7"), Str("0.9")>>

(* C8: for a BinaryTF or Regression record each retained day's target is the
   1-vector [t] of that day's crowd target when adjust_targets is off and
   [(t + true_label)/2] when it is on; a BinaryTF record with answer "yes", three days
   with documents, crowd targets 0.6, 0.7, 0.9 and adjust_targets off gives the
   targets tensor [[0.6],[0.7],[0.9]], category 0 and true label 1. *)
C8_ScalarTargets ==
    /\ (Returned /\ last.result.cat \in {0, 2} /\ DocDays(last.before) # {})
         => \A k \in 1..Len(last.result.rows) :
              LET day == last.before.targets[last.result.fid_examples[k].id + 1]
                  t == float(day.target.str).val
                  tl == IF last.result.cat = 0
                        THEN (IF last.before.answers[1] \in {Str("yes"), Str("Yes")}
                              THEN <<1, 1>> ELSE <<0, 1>>)
                        ELSE float(last.before.answers[1]).val
                  row == last.result.rows[k]
              IN  /\ Len(row) = 1
                  /\ last.result.true_target = tl
                  /\ IF opt.adjust_targets
                     THEN RatIs(row[1], t[1] * tl[2] + tl[1] * t[2], 2 * t[2] * tl[2])
                     ELSE row[1] = t
    /\ (C8_ExampleRecord /\ ~opt.adjust_targets /\ opt.max_seq_len >= 3)
         => /\ last.result.exc = "none"
            /\ last.result.targets = << << <<3, 5>> >>, << <<7, 10>> >>, << <<9, 10>> >> >>
            /\ last.result.cat = 0
            /\ last.result.true_target = <<1, 1>>

C8_Witness ==
    /\ C8_ExampleRecord
    /\ ~opt.adjust_targets
    /\ opt.max_seq_len >= 3
    /\ last.result.targets = << << <<3, 5>> >>, << <<7, 10>> >>, << <<9, 10>> >> >>

(* C9: for a MultiChoice record each retained day's target over the first
   min(num_choices, max_choice_len) choices is the raw scores divided by their sum, so
   it sums to 1; with adjust_targets on every entry is halved except the true-choice
   entry, which becomes (entry + 1)/2, and the row still sums to 1 for every record. *)
C9_ChoiceRowsSumToOne ==
    (Returned /\ last.result.cat = 1 /\ DocDays(last.before) # {})
        => \A k \in 1..Len(last.result.rows) :
             /\ Len(last.result.rows[k]) = Min(NumChoices(last.before), max_choice_len)
             /\ RSum(last.result.rows[k]) = <<1, 1>>

(* C10: in get_fid_outputs the encoder is put in training mode and the forward passes
   run with gradients enabled iff the requested mode is 'train' and
   opt.finetune_encoder is set; otherwise the encoder is put in eval mode, the forward
   passes run without gradients and the returned vectors are detached.  In all cases
   exactly one hidden vector per sub-example is returned, in input order. *)
C10_GradientSwitch ==
    call.mode # "none"
        => LET want == (call.mode = "train" /\ opt.finetune_encoder) IN
           /\ call.result.exc = "none"
           /\ fid_training = want
           /\ call.result.grads # <<>>
           /\ \A k \in 1..Len(call.result.grads) : call.result.grads[k] = want
           /\ ~want => ~call.result.outputs.requires_grad
           /\ Len(call.result.outputs.h) = Len(call.dataset)
           /\ \A k \in 1..Len(call.dataset) :
                call.result.outputs.h[k] = FidHidden(call.dataset[k])

\* a 'train' request without finetune_encoder, on an encoder that was in training
\* mode, over more sub-examples than one micro-batch holds
C10_Witness ==
    /\ call.mode = "train"
    /\ ~opt.finetune_encoder
    /\ call.before
    /\ ~fid_training
    /\ Len(call.dataset) > FidBatchSize
    /\ Len(call.result.outputs.h) = Len(call.dataset)

----------------------------------------------------------------------------
(* More float arithmetic *)

RNeg(a) == <<-a[1], a[2]>>

RSub(a, b) == RAdd(a, RNeg(b))

\* common factors are cancelled crosswise before the products are taken
RMul(a, b) ==
    LET g1 == IF a[1] = 0 THEN 1 ELSE GCD(Abs(a[1]), b[2])
        g2 == IF b[1] = 0 THEN 1 ELSE GCD(Abs(b[1]), a[2])
    IN  IF a[2] = 0 \/ b[2] = 0 THEN Rat(a[1] * b[1], 0)
        ELSE IF a[1] = 0 \/ b[1] = 0 THEN <<0, 1>>
        ELSE Rat((a[1] \div g1) * (b[1] \div g2), (a[2] \div g2) * (b[2] \div g1))

RAbs(a) == <<Abs(a[1]), a[2]>>

\* a comparison with not-a-number is false; an infinity lies beyond the finite
\* numbers
RGt(a, b) ==
    IF a[2] > 0 /\ b[2] > 0 THEN a[1] * b[2] > b[1] * a[2]
    ELSE /\ a # <<0, 0>> /\ b # <<0, 0>>
         /\ (IF a[2] = 0 THEN a[1] ELSE 0) > (IF b[2] = 0 THEN b[1] ELSE 0)

RGeq(a, b) ==
    IF a[2] > 0 /\ b[2] > 0 THEN a[1] * b[2] >= b[1] * a[2]
    ELSE /\ a # <<0, 0>> /\ b # <<0, 0>>
         /\ (IF a[2] = 0 THEN a[1] ELSE 0) >= (IF b[2] = 0 THEN b[1] ELSE 0)

\* tensor.mean() of a non-empty tensor
RMean(s) == RDiv(RSum(s), FloatOfInt(Len(s)))

\* a bool tensor used as a factor: True is 1., False is 0.
BoolAsFloat(b) == IF b THEN <<1, 1>> ELSE <<0, 1>>

----------------------------------------------------------------------------
(* Logarithms.  A loss is a number c + sum of q[p] * log(p) over primes p, with c
   and the q[p] rational: the record [c, q], q a function on the primes whose
   coefficient is not 0.  The logarithms of the primes are linearly independent
   over the rationals, so two such numbers are equal exactly when their records
   are.  An infinite or undefined loss has no logarithms left: it is c alone. *)

LogZero == [c |-> <<0, 1>>, q |-> <<>>]

LogOfRat(r) == [c |-> r, q |-> <<>>]

Coef(x, p) == IF p \in DOMAIN x.q THEN x.q[p] ELSE <<0, 1>>

LogAdd(x, y) ==
    IF x = LogZero THEN y
    ELSE IF y = LogZero THEN x
    ELSE LET keep == { p \in DOMAIN x.q \cup DOMAIN y.q :
                         RAdd(Coef(x, p), Coef(y, p)) # <<0, 1>> }
         IN  [c |-> RAdd(x.c, y.c),
              q |-> IF keep = {} \/ RAdd(x.c, y.c)[2] = 0 THEN <<>>
                    ELSE [p \in keep |-> RAdd(Coef(x, p), Coef(y, p))]]

\* r * x for a rational r, and for an infinite r when x is rational
LogScale(r, x) ==
    IF DOMAIN x.q = {} THEN LogOfRat(RMul(r, x.c))
    ELSE CASE r[2] > 0 ->
                IF r[1] = 0 THEN LogZero
                ELSE [c |-> RMul(r, x.c), q |-> [p \in DOMAIN x.q |-> RMul(r, x.q[p])]]

\* x / r for a rational r > 0
LogDiv(x, r) == LogScale(RDiv(<<1, 1>>, r), x)

RECURSIVE LogSum(_)
LogSum(s) == IF s = <<>> THEN LogZero ELSE LogAdd(Head(s), LogSum(Tail(s)))

\* tensor.mean() of a non-empty tensor
LogMean(s) == LogDiv(LogSum(s), FloatOfInt(Len(s)))

\* the least prime factor of n > 1
LeastFactor(n) ==
    CHOOSE d \in 2..n : n % d = 0 /\ \A e \in 2..(d - 1) : n % e # 0

\* log(n) of an integer n >= 1, by its prime factors
RECURSIVE Log(_)
Log(n) ==
    IF n = 1 THEN LogZero
    ELSE LogAdd([c |-> <<0, 1>>, q |-> [p \in {LeastFactor(n)} |-> <<1, 1>>]],
                Log(n \div LeastFactor(n)))

----------------------------------------------------------------------------
(* The forecaster and its heads (train lines 108-115, evaluate lines 387-390).
   GPT-2 and the three heads are library modules; what the model keeps of them
   is that they compute an output for every position of the padded batch, the
   padded days included, and that GPT-2 is causal: position d of a row depends
   on d and on the positions up to d of that row only.  A logit is carried as the weight
   w whose logarithm it is, so that softmax is w / sum(w); theta is the state of
   the parameters. *)

\* the sum of a vector of integers
RECURSIVE VSum(_)
VSum(v) == IF v = <<>> THEN 0 ELSE Head(v) + VSum(Tail(v))

\* line 108: hidden_state = model(X, mask=mask)
HiddenState(theta, X) ==
    [b \in 1..Len(X) |->
       [d \in 1..Len(X[b]) |-> theta + d + VSum([e \in 1..d |-> VSum(X[b][e])])]]

\* line 113: tf_classifier(hidden_state), two logits a day
TfLogits(h) == <<2 ^ (h % 3), 2 ^ ((h \div 3) % 3)>>

\* line 115: mc_classifier(hidden_state), max_choice_len logits a day
McLogits(h) == [j \in 1..max_choice_len |-> 2 ^ ((h + j * (1 + (h % 3))) % 3)]

\* line 116: regressor(hidden_state).squeeze(-1), one value a day
ReResult(h) == Rat(1 + (h % 7), 8)

\* F.softmax(logits, dim=-1)
Softmax(w) == LET total == VSum(w) IN [j \in 1..Len(w) |-> Rat(w[j], total)]

\* -log(p) of a rational p > 0 in lowest terms: log(denominator) - log(numerator)
NegLog(p) == LogAdd(Log(p[2]), LogScale(<<-1, 1>>, Log(p[1])))

\* -torch.nn.LogSoftmax(dim=-1)(logits)
NegLogSoftmax(w) == LET p == Softmax(w) IN [j \in 1..Len(w) |-> NegLog(p[j])]

\* torch.argmax over a row: the 0-based index of the first greatest entry
ArgMax(row) ==
    (CHOOSE j \in 1..Len(row) :
        /\ \A k \in 1..Len(row) : ~RGt(row[k], row[j])
        /\ \A k \in 1..(j - 1) : RGt(row[j], row[k])) - 1

IntRow(row) == [j \in 1..Len(row) |-> <<row[j], 1>>]

----------------------------------------------------------------------------
(* Routing by category: tensor[categories == c, ...] *)

\* the batch positions of category c, in batch order
CatIndex(categories, c) ==
    LET S == { b \in 1..Len(categories) : categories[b] = c }
    IN  [k \in 1..Cardinality(S) |-> Kth(S, k)]

\* tensor[categories == c, ...]
SelectCat(tensor, categories, c) ==
    LET ix == CatIndex(categories, c) IN [k \in 1..Len(ix) |-> tensor[ix[k]]]

\* lines 113-123 (evaluate 388-398): the head outputs and the labels, routed
Routed(theta, col) ==
    LET hidden_state == HiddenState(theta, col.X)
        cats == col.cats
        tf_logits == SelectCat([b \in 1..Len(hidden_state) |->
                       [d \in 1..Len(hidden_state[b]) |-> TfLogits(hidden_state[b][d])]],
                       cats, 0)
        mc_logits == SelectCat([b \in 1..Len(hidden_state) |->
                       [d \in 1..Len(hidden_state[b]) |-> McLogits(hidden_state[b][d])]],
                       cats, 1)
        re_results == SelectCat([b \in 1..Len(hidden_state) |->
                       [d \in 1..Len(hidden_state[b]) |-> ReResult(hidden_state[b][d])]],
                       cats, 2)
        labels_tf == SelectCat(col.labels, cats, 0)
        labels_re == SelectCat(col.labels, cats, 2)
    IN  [tf_logits |-> tf_logits,
         tf_probs |-> [k \in 1..Len(tf_logits) |->
                         [d \in 1..Len(tf_logits[k]) |-> Softmax(tf_logits[k][d])[1]]],
         mc_logits |-> mc_logits,
         re_results |-> re_results,
         tf_labels |-> [k \in 1..Len(labels_tf) |->
                          [d \in 1..Len(labels_tf[k]) |-> labels_tf[k][d][1]]],
         mc_labels |-> SelectCat(col.labels, cats, 1),
         re_labels |-> [k \in 1..Len(labels_re) |->
                          [d \in 1..Len(labels_re[k]) |-> labels_re[k][d][1]]],
         tf_mask |-> SelectCat(col.mask, cats, 0),
         mc_mask |-> SelectCat(col.mask, cats, 1),
         re_mask |-> SelectCat(col.mask, cats, 2)]

----------------------------------------------------------------------------
(* The losses: train lines 126-141, evaluate lines 400-415 *)

\* mask.sum(dim=1): the number of valid days of each row
SizeSeq(mask) ==
    [k \in 1..Len(mask) |-> Cardinality({ d \in 1..Len(mask[k]) : mask[k][d] })]

\* line 123: mc_mask_indi = mc_labels >= 0.
McMaskIndiAll(label) == TRUE

McMaskIndi(label) == RGeq(label, <<0, 1>>)

\* line 136
NormMc == <<87, 50>>

\* line 139
NormRe == <<9, 50>>

\* lines 130-132
LossTf(r) ==
    LET size_tf_seq == SizeSeq(r.tf_mask)
        row(k) ==
          LogDiv(LogSum([d \in 1..Len(r.tf_mask[k]) |->
                 LET nl == NegLogSoftmax(r.tf_logits[k][d])
                     t == r.tf_labels[k][d]
                 IN  LogScale(BoolAsFloat(r.tf_mask[k][d]),
                              LogAdd(LogScale(t, nl[1]),
                                     LogScale(RSub(<<1, 1>>, t), nl[2])))]),
                 FloatOfInt(size_tf_seq[k]))
    IN  LogMean([k \in 1..Len(r.tf_labels) |-> row(k)])

\* lines 134-136
LossMc(r) ==
    LET size_mc_seq == SizeSeq(r.mc_mask)
        row(k) ==
          LogDiv(LogSum([d \in 1..Len(r.mc_labels[k]) |->
                 LET nl == NegLogSoftmax(r.mc_logits[k][d]) IN
                 LogSum([j \in 1..max_choice_len |->
                           LogScale(RMul(r.mc_labels[k][d][j],
                                         BoolAsFloat(McMaskIndi(r.mc_labels[k][d][j]))),
                                    nl[j])])]),
                 FloatOfInt(size_mc_seq[k]))
    IN  LogDiv(LogMean([k \in 1..Len(r.mc_labels) |-> row(k)]), NormMc)

\* lines 138-139
LossRe(r) ==
    LET size_re_seq == SizeSeq(r.re_mask)
        row(k) ==
          RDiv(RSum([d \in 1..Len(r.re_mask[k]) |->
                 LET e == RSub(r.re_results[k][d], r.re_labels[k][d])
                 IN  RMul(RMul(e, e), BoolAsFloat(r.re_mask[k][d]))]),
               FloatOfInt(size_re_seq[k]))
    IN  LogOfRat(RDiv(RMean([k \in 1..Len(r.re_labels) |-> row(k)]), NormRe))

\* line 141: train_loss = loss_tf + loss_mc + loss_re
TotalLossWithoutRegression(loss_tf, loss_mc, loss_re) == LogAdd(loss_tf, loss_mc)

TotalLoss(loss_tf, loss_mc, loss_re) == LogAdd(LogAdd(loss_tf, loss_mc), loss_re)

\* lines 126-141: each loss starts at 0.0 and is computed only for a category that
\* has rows
Losses(r) ==
    LET loss_tf == IF Len(r.tf_labels) > 0 THEN LossTf(r) ELSE LogZero
        loss_mc == IF Len(r.mc_labels) > 0 THEN LossMc(r) ELSE LogZero
        loss_re == IF Len(r.re_labels) > 0 THEN LossRe(r) ELSE LogZero
    IN  [loss_tf |-> loss_tf, loss_mc |-> loss_mc, loss_re |-> loss_re,
         train_loss |-> TotalLoss(loss_tf, loss_mc, loss_re)]

----------------------------------------------------------------------------
(* The metrics: train lines 151-190, evaluate lines 417-456 *)

\* torch.gather(rows, -1, seq_ends_indices): of each row, the entry at its own
\* seq_end (0-based)
GatherAtLastColumn(rows, seq_ends) ==
    [k \in 1..Len(rows) |-> rows[k][Len(rows[k])]]

GatherSeqEnd(rows, seq_ends) ==
    [k \in 1..Len(rows) |-> rows[k][seq_ends[k] + 1]]

Threshold == <<1, 2>>

\* lines 151-190.  A category without rows gets the empty tensors of the else
\* branches; the comparisons of empty tensors are empty.
Metrics(r, col) ==
    LET cats == col.cats
        seq_ends_tf == SelectCat(col.seq_ends, cats, 0)
        seq_ends_mc == SelectCat(col.seq_ends, cats, 1)
        seq_ends_re == SelectCat(col.seq_ends, cats, 2)
        true_labels_tf == SelectCat(col.true_labels, cats, 0)
        true_labels_mc == SelectCat(col.true_labels, cats, 1)
        true_labels_re == SelectCat(col.true_labels, cats, 2)
        n_tf == Len(true_labels_tf)
        n_mc == Len(true_labels_mc)
        n_re == Len(true_labels_re)
        crowd_preds_tf ==
            IF n_tf > 0
            THEN LET g == GatherSeqEnd(r.tf_labels, seq_ends_tf)
                 IN  [k \in 1..n_tf |-> RGt(g[k], Threshold)]
            ELSE <<>>
        preds_tf ==
            IF n_tf > 0
            THEN LET g == GatherSeqEnd(r.tf_probs, seq_ends_tf)
                 IN  [k \in 1..n_tf |-> RGt(g[k], Threshold)]
            ELSE <<>>
        crowd_preds_mc ==
            IF n_mc > 0
            THEN LET g == GatherSeqEnd(r.mc_labels, seq_ends_mc)
                 IN  [k \in 1..n_mc |-> ArgMax(g[k])]
            ELSE <<>>
        preds_mc ==
            IF n_mc > 0
            THEN LET g == GatherSeqEnd(r.mc_logits, seq_ends_mc)
                 IN  [k \in 1..n_mc |-> ArgMax(IntRow(g[k]))]
            ELSE <<>>
        crowd_preds_re ==
            IF n_re > 0 THEN GatherSeqEnd(r.re_labels, seq_ends_re) ELSE <<>>
        preds_re ==
            IF n_re > 0 THEN GatherSeqEnd(r.re_results, seq_ends_re) ELSE <<>>
    IN  [crowd_em_tf |-> [k \in 1..n_tf |->
                            true_labels_tf[k] = BoolAsFloat(crowd_preds_tf[k])],
         em_tf |-> [k \in 1..n_tf |-> true_labels_tf[k] = BoolAsFloat(preds_tf[k])],
         crowd_em_mc |-> [k \in 1..n_mc |->
                            true_labels_mc[k] = FloatOfInt(crowd_preds_mc[k])],
         em_mc |-> [k \in 1..n_mc |-> true_labels_mc[k] = FloatOfInt(preds_mc[k])],
         crowd_em_re |-> [k \in 1..n_re |->
                            RNeg(RAbs(RSub(true_labels_re[k], crowd_preds_re[k])))],
         em_re |-> [k \in 1..n_re |-> RNeg(RAbs(RSub(true_labels_re[k], preds_re[k])))],
         my_preds_tf |-> preds_tf,
         my_preds_mc |-> preds_mc,
         my_preds_re |-> preds_re]

----------------------------------------------------------------------------
(* The per-example results of evaluate: lines 458-472 *)

\* line 459: seq_ends = seq_ends + 1, the number of days kept of a row
ResultLengthWithoutPlusOne(seq_end) == seq_end

ResultLength(seq_end) == seq_end + 1

\* lines 458-472: one entry per example of the batch, in batch order, taken from
\* the routed output of the example's category at that category's running count
RawLogits(r, col) ==
    LET cats == col.cats
        count(i, c) == Cardinality({ b \in 1..(i - 1) : cats[b] = c })
        entry(i) ==
          CASE cats[i] = 0 -> PyPrefix(r.tf_logits[count(i, 0) + 1],
                                       ResultLength(col.seq_ends[i]))
            [] cats[i] = 1 -> PyPrefix(r.mc_logits[count(i, 1) + 1],
                                       ResultLength(col.seq_ends[i]))
            [] cats[i] = 2 -> PyPrefix(r.re_results[count(i, 2) + 1],
                                       ResultLength(col.seq_ends[i]))
    IN  [i \in 1..Len(cats) |-> entry(i)]

----------------------------------------------------------------------------
(* One iteration of the batch loop of train() (lines 84-190, mode 'train') and of
   evaluate() (lines 374-456, mode 'eval'): the items the DataLoader fetched are
   encoded, collated, sent through the forecaster, and scored. *)

\* the first exception of a sequence of outcomes
FirstExc(excs) ==
    IF \A k \in 1..Len(excs) : excs[k] = "none" THEN "none"
    ELSE excs[CHOOSE k \in 1..Len(excs) :
                 excs[k] # "none" /\ \A j \in 1..(k - 1) : excs[j] = "none"]

NoStep ==
    [exc |-> "none", col |-> NoCollated, routed |-> <<>>, losses |-> <<>>,
     metrics |-> <<>>]

\* lines 84-87 (evaluate 374-377): the items the DataLoader fetched
Fetched(dataset, o, idxs) ==
    <<>> \o [k \in 1..Len(idxs) |-> getitem(dataset[idxs[k]], o)]

\* lines 88-100 (evaluate 378-382): the encodings of the items
Encoded(items, o, mode) ==
    <<>> \o [k \in 1..Len(items) |-> get_fid_outputs(items[k].fid_examples, o, mode)]

\* lines 101-103 (evaluate 383-385)
CollatedBatch(items, encs) ==
    forecaster_collate_fn([k \in 1..Len(items) |-> encs[k].outputs.h],
                          [k \in 1..Len(items) |-> items[k].targets_pad],
                          [k \in 1..Len(items) |-> items[k].true_target],
                          [k \in 1..Len(items) |-> items[k].cat])

\* lines 108-190 (evaluate 387-456) on the collated batch
Scored(theta, col) ==
    CHOOSE st \in { [exc |-> "none", col |-> col, routed |-> r,
                     losses |-> Losses(r), metrics |-> Metrics(r, col)] :
                    r \in {Routed(theta, col)} } : TRUE

\* the step after collation
StepOf(items, encs, col, theta) ==
    LET item_exc == FirstExc([k \in 1..Len(items) |-> items[k].exc])
        enc_exc == FirstExc([k \in 1..Len(encs) |-> encs[k].exc])
    IN  IF item_exc # "none" THEN [NoStep EXCEPT !.exc = item_exc]
        ELSE IF enc_exc # "none" THEN [NoStep EXCEPT !.exc = enc_exc]
        ELSE IF col.exc # "none" THEN [NoStep EXCEPT !.exc = col.exc]
        ELSE Scored(theta, col)

\* each stage works on the value of the stage before it, computed once
BatchStep(dataset, o, idxs, mode, theta) ==
    CHOOSE st \in
        UNION { UNION { { StepOf(items, encs, col, theta) :
                            col \in {CollatedBatch(items, encs)} } :
                        encs \in {Encoded(items, o, mode)} } :
                items \in {Fetched(dataset, o, idxs)} } : TRUE

\* how many items of the batch the DataLoader fetched: __getitem__ runs on the
\* indices in their order, and the first call that raises ends the batch
NumFetched(dataset, o, idxs) ==
    LET raised == { k \in 1..Len(idxs) : getitem(dataset[idxs[k]], o).exc # "none" }
    IN  IF raised = {} THEN Len(idxs)
        ELSE CHOOSE k \in raised : \A j \in raised : k <= j

\* the records after the DataLoader fetched the items of the batch, in the process
\* that ran __getitem__ (with num_workers=2, lines 58-65 and 349-355, a worker's
\* copy of the dataset)
DataAfter(dataset, o, idxs) ==
    CHOOSE after \in
        { [i \in 1..Len(dataset) |->
             IF \E k \in 1..n : idxs[k] = i
             THEN [dataset[i] EXCEPT !.targets = getitem(dataset[i], o).days]
             ELSE dataset[i]] :
            n \in {NumFetched(dataset, o, idxs)} } : TRUE

\* the encoder's training flag after the batch: the first call of get_fid_outputs
\* sets it, and no call is made when fetching the batch raised
FidTrainingAfter(before, dataset, o, idxs, mode) ==
    IF idxs = <<>> \/ NumFetched(dataset, o, idxs) < Len(idxs)
                   \/ getitem(dataset[idxs[Len(idxs)]], o).exc # "none"
    THEN before
    ELSE EffectiveMode(mode, o.finetune_encoder) = "train"

\* line 351: batch_size = opt.per_gpu_batch_size * 4
EvalBatchFactor == 4

\* the accumulators of evaluate (lines 362-371)
NoAcc ==
    [crowd_em_tf |-> <<>>, em_tf |-> <<>>, crowd_em_mc |-> <<>>, em_mc |-> <<>>,
     crowd_em_re |-> <<>>, em_re |-> <<>>, my_preds_tf |-> <<>>, my_preds_mc |-> <<>>,
     my_preds_re |-> <<>>]

\* lines 448-456: every list is extended by the batch's values
Extend(acc, m) == [f \in DOMAIN acc |-> acc[f] \o m[f]]

\* lines 475-476 and 499-500: np.mean over the matches of the two classification
\* categories (bools) followed by the negative distances of regression, halved
HalfMean(em_tf, em_mc, em_re) ==
    RHalf(RMean([k \in 1..Len(em_tf \o em_mc) |-> BoolAsFloat((em_tf \o em_mc)[k])]
                \o em_re))

\* the number of batches of a DataLoader with drop_last=False
NumBatches(n, batch_size) == (n + batch_size - 1) \div batch_size

\* train() entered (line 71) with the forecaster's parameters theta: no batch yet.
\* theta are the parameters of the forward pass of step, params the parameters
\* now, epoch the epoch of line 73 and used the indices the RandomSampler has
\* handed out in it.  train_dataset and eval_dataset are the two datasets passed
\* to train(); data holds the records of the DataLoader in use as the processes
\* that run __getitem__ see them (num_workers=2: copies of the dataset, made when
\* an iteration over the DataLoader starts).
\* pos, total_loss, acc and raw_logits are evaluate()'s locals; the running sums
\* and match lists of an epoch of train() (lines 75-82, 181-190 and 201-212) feed
\* only the log lines 214-234 and are not kept.
Idle(theta) ==
    [pc |-> "idle", theta |-> theta, params |-> theta, train_dataset |-> <<>>,
     eval_dataset |-> <<>>, epoch |-> 0, used |-> {}, mode |-> "none", idxs |-> <<>>,
     step |-> NoStep, pos |-> 0, total_loss |-> LogZero, acc |-> NoAcc,
     raw_logits |-> <<>>, results_file |-> <<>>, ret |-> <<>>]

\* one record more than an evaluation batch holds
EvalLen == EvalBatchFactor + 1

\* kinds of every category, on days that all have documents; the record at
\* position i has 1 + (i % MaxSeqLen) days, and the record of the second batch is
\* of the kind of the first record
EvalDatasets ==
    { [i \in 1..EvalLen |->
         MkRecord(ks[1 + ((i - 1) % EvalBatchFactor)], 1 + (i % MaxSeqLen),
                  AllDocs(1 + (i % MaxSeqLen)))] :
        ks \in [1..EvalBatchFactor -> PairKinds] }

\* the kinds of record of a training batch: with them the question whose answer
\* is no letter
BatchKinds == PairKinds \cup { k \in Kinds : k.answer = "\n" }

ShortRecords ==
    { MkRecord(k, n, AllDocs(n)) : k \in BatchKinds, n \in 1..Min(MaxDays, MaxSeqLen) }

\* train() called for one epoch with a training set of two records that make one
\* batch and an empty dev set, or for two epochs with a dev set of more records
\* than one evaluation batch holds and a training set of two batches of one record
\* (the dev set's first two)
BatchInit ==
    /\ \/ /\ data \in { <<r1, r2>> : r1 \in ShortRecords, r2 \in ShortRecords }
          /\ opt \in [adjust_targets : BOOLEAN, finetune_encoder : {FALSE},
                      max_seq_len : {DefaultMaxSeqLen}, per_gpu_batch_size : {2},
                      epochs : {1}]
          /\ net \in { [Idle(theta) EXCEPT !.train_dataset = data] :
                         theta \in 0..(NumTheta - 1) }
       \/ /\ \E dev \in EvalDatasets :
                /\ data = SubSeq(dev, 1, 2)
                /\ net \in { [Idle(theta) EXCEPT !.train_dataset = SubSeq(dev, 1, 2),
                                                 !.eval_dataset = dev] :
                               theta \in 0..(NumTheta - 1) }
          /\ opt \in [adjust_targets : {FALSE}, finetune_encoder : {FALSE},
                      max_seq_len : {DefaultMaxSeqLen}, per_gpu_batch_size : {1},
                      epochs : {2}]
    /\ batch = <<>>
    /\ fid_outputs_batch = <<>>
    /\ targets_batch = <<>>
    /\ true_labels_batch = <<>>
    /\ cats_batch = <<>>
    /\ fid_training = TRUE
    /\ last = NoLast
    /\ call = NoCall
    /\ out = NoOut
    /\ exc = "none"
    /\ run = NoTrain

\* lines 56-65 and 84: the indices the RandomSampler has not yet handed out in the
\* epoch of the latest batch; a new epoch (line 72) starts from all of them
Remaining ==
    IF net.pc = "train" THEN (1..Len(net.train_dataset)) \ net.used
    ELSE 1..Len(net.train_dataset)

\* the batches the DataLoader can hand to train() next: per_gpu_batch_size of the
\* indices of the epoch not yet handed out, in any order, or all that are left of
\* them as the last batch (drop_last=False)
TrainBatches ==
    LET k == Min(opt.per_gpu_batch_size, Cardinality(Remaining))
    IN  { s \in [1..k -> Remaining] : \A a, b \in 1..k : a # b => s[a] # s[b] }

\* train() lines 84-212 for the next batch of the epoch, the first batch of the
\* first epoch (after line 71) or of the epoch that follows an evaluation, if
\* range(opt.epochs) has one (lines 72-73).  The workers of the epoch's DataLoader
\* iteration start from the training set (line 84); every batch starts from fresh
\* locals (lines 88-103) and runs the forward pass on the current parameters; in
\* a batch whose step counter is a multiple of accumulation_steps the optimizer
\* moves the parameters (lines 195-199), to any value.
TrainBatch(idxs) ==
    /\ exc = "none"
    /\ net.pc \in {"idle", "evaluated"} => net.epoch < opt.epochs
    /\ net.pc \in {"idle", "train", "evaluated"}
    /\ Remaining # {}
    /\ \E dataset \in {IF net.pc = "train" THEN data ELSE net.train_dataset} :
       \E st \in {BatchStep(dataset, opt, idxs, "train", net.params)} :
          /\ exc' = st.exc
          /\ data' = DataAfter(dataset, opt, idxs)
          /\ fid_training' = FidTrainingAfter(fid_training, dataset, opt, idxs, "train")
          /\ \E params \in IF st.exc = "none" THEN 0..(NumTheta - 1) ELSE {net.params} :
                net' = [net EXCEPT
                          !.pc = "train", !.mode = "train", !.idxs = idxs, !.step = st,
                          !.theta = net.params,
                          !.params = params,
                          !.epoch = IF net.pc = "train" THEN @ ELSE @ + 1,
                          !.used = (IF net.pc = "train" THEN @ ELSE {})
                                   \cup { idxs[k] : k \in 1..Len(idxs) }]
    /\ UNCHANGED <<opt, batch, fid_outputs_batch, targets_batch, true_labels_batch,
                   cats_batch, last, call, out, run>>

\* the indices a SequentialSampler hands out after position pos
EvalIdxs(dataset, o, pos) ==
    <<>> \o [k \in 1..(Min(pos + o.per_gpu_batch_size * EvalBatchFactor, Len(dataset))
                        - pos) |-> pos + k]

\* lines 414 and 448-472: the locals of evaluate() after the step st on idxs
Accumulated(before, idxs, st) ==
    IF st.exc # "none"
    THEN [before EXCEPT !.pc = "eval", !.mode = "eval", !.idxs = idxs, !.step = st,
                        !.theta = before.params]
    ELSE [before EXCEPT
            !.pc = "eval", !.mode = "eval", !.idxs = idxs, !.step = st,
            !.theta = before.params,
            !.pos = @ + Len(idxs),
            !.total_loss = LogAdd(@, st.losses.train_loss),
            !.acc = Extend(@, st.metrics),
            !.raw_logits = @ \o RawLogits(st.routed, st.col)]

\* the locals of evaluate() after the batch that follows position before.pos
EvalBatchResult(dataset, o, before) ==
    CHOOSE after \in
        UNION { { Accumulated(before, idxs, st) :
                    st \in {BatchStep(dataset, o, idxs, "eval", before.params)} } :
                idxs \in {EvalIdxs(dataset, o, before.pos)} } : TRUE

\* line 236 has called evaluate() after the last batch of the epoch, and its batch
\* loop (line 374) has not begun: the locals of lines 362-371
EvalEntered ==
    [net EXCEPT !.pos = 0, !.total_loss = LogZero, !.acc = NoAcc, !.raw_logits = <<>>]

\* evaluate() lines 374-472 for the next batch of the SequentialSampler.  The first
\* batch follows the last training batch of the epoch (line 236) on a dev set that
\* is not empty: the workers start from the dev set and the accumulators from
\* lines 362-371.
EvalBatch ==
    /\ exc = "none"
    /\ \/ net.pc = "train" /\ Remaining = {} /\ net.eval_dataset # <<>>
       \/ net.pc = "eval" /\ net.pos < Len(data)
    /\ \E dataset \in {IF net.pc = "train" THEN net.eval_dataset ELSE data} :
          /\ net' = EvalBatchResult(dataset, opt,
                                    IF net.pc = "train" THEN EvalEntered ELSE net)
          /\ exc' = net'.step.exc
          /\ data' = DataAfter(dataset, opt, net'.idxs)
          /\ fid_training' = FidTrainingAfter(fid_training, dataset, opt, net'.idxs,
                                              "eval")
    /\ UNCHANGED <<opt, batch, fid_outputs_batch, targets_batch, true_labels_batch,
                   cats_batch, last, call, out, run>>

\* evaluate() lines 475-500, after the last batch of the dev set, or straight after
\* the last training batch of the epoch when the dev set is empty: the results
\* file is written (lines 480-481), and line 499 divides by len(dataloader), which
\* raises ZeroDivisionError on a DataLoader of no batch
EvalFinish ==
    /\ exc = "none"
    /\ \/ net.pc = "train" /\ Remaining = {} /\ net.eval_dataset = <<>>
       \/ net.pc = "eval" /\ net.pos = Len(data)
    /\ \E before \in {IF net.pc = "train" THEN EvalEntered ELSE net} :
       \E len_dataloader \in {NumBatches(Len(net.eval_dataset),
                                         opt.per_gpu_batch_size * EvalBatchFactor)} :
          IF len_dataloader = 0
          THEN /\ net' = [before EXCEPT
                            !.pc = "raised", !.mode = "eval", !.idxs = <<>>,
                            !.step = NoStep, !.results_file = before.raw_logits]
               /\ exc' = "ZeroDivisionError"
          ELSE /\ net' = [before EXCEPT
                            !.pc = "evaluated",
                            !.results_file = before.raw_logits,
                            !.ret = <<HalfMean(before.acc.em_tf, before.acc.em_mc,
                                               before.acc.em_re),
                                      LogDiv(before.total_loss,
                                             FloatOfInt(len_dataloader)),
                                      HalfMean(before.acc.crowd_em_tf,
                                               before.acc.crowd_em_mc,
                                               before.acc.crowd_em_re)>>]
               /\ UNCHANGED exc
    /\ data' = IF net.pc = "train" THEN net.eval_dataset ELSE data
    /\ UNCHANGED <<opt, batch, fid_outputs_batch, targets_batch, true_labels_batch,
                   cats_batch, fid_training, last, call, out, run>>

BatchNext ==
    \/ \E idxs \in TrainBatches : TrainBatch(idxs)
    \/ EvalBatch
    \/ EvalFinish

SpecBatch == BatchInit /\ [][BatchNext]_vars

----------------------------------------------------------------------------
(* Vocabulary of the batch properties, read off the records of the batch *)

\* a batch went through train() or evaluate() without an exception
BatchDone == net.pc \in {"train", "eval"} /\ net.step.exc = "none"

\* the record behind position b of the batch
BatchRecord(b) == data[net.idxs[b]]

\* the categories of the records of the batch
BatchCats == { get_category(BatchRecord(b)).cat : b \in 1..Len(net.idxs) }

LossOf(c) ==
    CASE c = 0 -> net.step.losses.loss_tf
      [] c = 1 -> net.step.losses.loss_mc
      [] c = 2 -> net.step.losses.loss_re

\* the prediction and match arrays of a category
ArraysOf(c) ==
    LET m == net.step.metrics IN
    CASE c = 0 -> <<m.crowd_em_tf, m.em_tf, m.my_preds_tf>>
      [] c = 1 -> <<m.crowd_em_mc, m.em_mc, m.my_preds_mc>>
      [] c = 2 -> <<m.crowd_em_re, m.em_re, m.my_preds_re>>

\* the loss of a category if the batch has it, else nothing
PresentLoss(c) == IF c \in BatchCats THEN LossOf(c) ELSE LogZero

----------------------------------------------------------------------------
(* C11: in train and in evaluate, a category with no example in the batch raises
   nothing, contributes a loss of exactly 0.0 and empty prediction and match
   arrays, and the total loss is exactly the sum of the losses of the categories
   that are present. *)
C11_AbsentCategory ==
    net.pc \in {"train", "eval"}
        => /\ net.step.exc = "none"
           /\ \A c \in {0, 1, 2} \ BatchCats :
                /\ LossOf(c) = LogZero
                /\ ArraysOf(c) = <<<<>>, <<>>, <<>>>>
           /\ net.step.losses.train_loss =
                LogAdd(LogAdd(PresentLoss(0), PresentLoss(1)), PresentLoss(2))

\* a training batch of a BinaryTF and a Regression example, none MultiChoice, with
\* a loss for each
C11_Witness ==
    /\ net.pc = "train"
    /\ BatchDone
    /\ BatchCats = {0, 2}
    /\ LossOf(0) # LogZero
    /\ LossOf(2) # LogZero

----------------------------------------------------------------------------
(* The example behind a batch position, taken on its own *)

\* what __getitem__ returns for the record behind batch position b
OwnItem(b) == getitem(BatchRecord(b), opt)

\* the number of days the example keeps; its last day is day OwnDays(b), 1-based
OwnDays(b) == Len(OwnItem(b).rows)

\* the forecaster's hidden state at day d of an example, from its own encoded days
ItemHidden(it, d) ==
    net.theta + d + VSum([e \in 1..d |-> VSum(FidHidden(it.fid_examples[e]))])

\* the position of batch position b among the batch positions of its category
RankInCat(b) ==
    Cardinality({ a \in 1..b : OwnItem(a).cat = OwnItem(b).cat })

\* the days of the padded batch
PaddedDays == Len(net.step.col.mask[1])

----------------------------------------------------------------------------
(* C12: the model prediction and the crowd target that are compared with the true
   label of an example are both read at the last valid day of that example's own
   row.  BinaryTF: both are thresholded at 0.5 and scored by equality with the
   true label; MultiChoice: the argmax of both, scored by equality with the true
   label index; Regression: the negative absolute error. *)
C12_ScoredAtOwnLastDay ==
    BatchDone =>
      \A b \in 1..Len(net.idxs) :
        LET it == OwnItem(b)
            k == RankInCat(b)
            h == ItemHidden(it, Len(it.rows))
            crowd == it.rows[Len(it.rows)]
            m == net.step.metrics
        IN  CASE it.cat = 0 ->
                   LET pred == RGt(Softmax(TfLogits(h))[1], <<1, 2>>)
                       crowd_pred == RGt(crowd[1], <<1, 2>>)
                   IN  /\ m.my_preds_tf[k] = pred
                       /\ m.em_tf[k] = (it.true_target = BoolAsFloat(pred))
                       /\ m.crowd_em_tf[k] = (it.true_target = BoolAsFloat(crowd_pred))
              [] it.cat = 1 ->
                   LET pred == ArgMax(IntRow(McLogits(h)))
                       crowd_pred == ArgMax(crowd)
                   IN  /\ m.my_preds_mc[k] = pred
                       /\ m.em_mc[k] = (it.true_target = <<pred, 1>>)
                       /\ m.crowd_em_mc[k] = (it.true_target = <<crowd_pred, 1>>)
              [] it.cat = 2 ->
                   LET pred == ReResult(h) IN
                       /\ m.my_preds_re[k] = pred
                       /\ m.em_re[k] = RNeg(RAbs(RSub(it.true_target, pred)))
                       /\ m.crowd_em_re[k] = RNeg(RAbs(RSub(it.true_target, crowd[1])))

\* a batch of two BinaryTF examples in which the second is shorter than the padded
\* batch, and the head's output on the last padded day would be scored differently
C12_Witness ==
    /\ BatchDone
    /\ Len(net.idxs) = 2
    /\ OwnItem(1).cat = 0
    /\ OwnItem(2).cat = 0
    /\ OwnDays(2) < PaddedDays
    /\ RGt(net.step.routed.tf_probs[2][PaddedDays], <<1, 2>>)
         # net.step.metrics.my_preds_tf[2]

----------------------------------------------------------------------------
(* train(): the epoch loop of lines 71-236, the statements of lines 238-249, the
   second loop of lines 251-339 and the save of lines 341-345.  A batch is kept
   as what it does to the step counter, the gradients, the optimizer and the
   modules' training flags, and a dataset as the number of its batches and the
   exception __getitem__ raises on one of its records, if any; the dev
   exact-match evaluate() returns is any of DevEms. *)

TrainOpts ==
    [epochs : 1..MaxEpochs, accumulation_steps : 1..MaxAcc, is_main : BOOLEAN,
     start_epoch : 0..(MaxEpochs + 1), finetune_encoder : BOOLEAN]

\* the exceptions __getitem__ raises on records of the model
GetItemExcs == { getitem(r, o).exc : r \in Records, o \in Opts } \ {"none"}

\* lines 475-476 and 499-500: a dev exact-match is the halved mean of matches
\* (0 or 1) and of negative distances, so at most 1/2 and negative when the
\* distances outweigh the matches
DevEms == { Rat(k, 2) : k \in (-MaxEm)..1 }

\* lines 195-199: what follows backward() in a batch whose step counter is step
OptimizerOpsEveryBatch(step, accumulation_steps) ==
    <<"clip_grad_norm_", "optimizer.step", "scheduler.step", "optimizer.zero_grad">>

OptimizerOps(step, accumulation_steps) ==
    IF step % accumulation_steps = 0
    THEN <<"clip_grad_norm_", "optimizer.step", "scheduler.step", "optimizer.zero_grad">>
    ELSE <<>>

\* the gradients after a sequence of operations: in_grad counts the backward passes
\* summed in .grad, unapplied those no optimizer step has used yet, lost those
\* zeroed before any optimizer step used them
RECURSIVE GradsAfter(_, _)
GradsAfter(g, ops) ==
    IF ops = <<>> THEN g
    ELSE GradsAfter(
           CASE Head(ops) = "backward" ->
                  [g EXCEPT !.in_grad = @ + 1, !.unapplied = @ + 1]
             [] Head(ops) = "optimizer.step" ->
                  [g EXCEPT !.unapplied = 0, !.applied = @ + g.unapplied]
             [] Head(ops) = "optimizer.zero_grad" ->
                  [g EXCEPT !.in_grad = 0, !.unapplied = 0, !.lost = @ + g.unapplied]
             [] OTHER -> g,
           Tail(ops))

NoGrads == [in_grad |-> 0, unapplied |-> 0, applied |-> 0, lost |-> 0]

\* src.util.save(model, optimizer, scheduler, step, best_dev_em, opt, path, name):
\* the module passed, with the optimizer and scheduler state, step and best metric
save(modules, step, best_dev_em, name) ==
    [name |-> name, modules |-> modules, optimizer |-> TRUE, scheduler |-> TRUE,
     step |-> step, best_eval_metric |-> best_dev_em]

\* lines 786-820: the encoder is one module; the forecaster, its input projection
\* and the three heads are five separate modules
AllModules ==
    {"encoder", "forecaster", "input_embeddings", "tf_classifier", "mc_classifier",
     "regressor"}

\* train() entered with the arguments a: step, best_dev_em, a training set of nb
\* batches and a dev set of dev_nb batches, faulty and dev_faulty being the
\* exception that __getitem__ raises on a record of the training set and of the dev
\* set, or "none".  The modules are freshly constructed, in training mode, and
\* dev_em is not yet bound.
Entered(a) ==
    [pc |-> "start", nb |-> a.nb, dev_nb |-> a.dev_nb, faulty |-> a.faulty,
     dev_faulty |-> a.dev_faulty, step0 |-> a.step, best0 |-> a.best_dev_em,
     epoch |-> 0, i |-> 0, step |-> a.step, best_dev_em |-> a.best_dev_em,
     dev_em |-> <<>>, training |-> TRUE, fwd_training |-> TRUE, ops |-> <<>>,
     grads |-> NoGrads, batches |-> 0, evals |-> 0, best_seen |-> a.best_dev_em,
     checkpoints |-> <<>>]

TrainInit ==
    /\ data = <<>>
    /\ opt \in TrainOpts
    /\ batch = <<>>
    /\ fid_outputs_batch = <<>>
    /\ targets_batch = <<>>
    /\ true_labels_batch = <<>>
    /\ cats_batch = <<>>
    /\ fid_training = TRUE
    /\ last = NoLast
    /\ call = NoCall
    /\ out = NoOut
    /\ exc = "none"
    /\ run \in { Entered(a) :
                   a \in { x \in [nb : 1..MaxBatches, step : 0..MaxStep,
                                  best_dev_em : DevEms,
                                  faulty : {"none"} \cup GetItemExcs, dev_nb : 0..1,
                                  dev_faulty : {"none"} \cup GetItemExcs] :
                              x.dev_nb = 0 => x.dev_faulty = "none" } }
    /\ net = NoNet

\* what train() never writes
Unchanged ==
    UNCHANGED <<data, opt, batch, fid_outputs_batch, targets_batch, true_labels_batch,
                cats_batch, last, call, out, net>>

\* lines 49-71, ending with model.train()
Start ==
    /\ run.pc = "start"
    /\ run' = [run EXCEPT !.pc = "batch", !.training = TRUE]
    /\ UNCHANGED <<fid_training, exc>>
    /\ Unchanged

\* lines 84-212: one batch of the epoch.  The RandomSampler puts the record that
\* __getitem__ raises on, if there is one, in any batch of the epoch: the
\* DataLoader raises the exception on line 84, before the step counter moves.
\* Otherwise every item of the batch goes through get_fid_outputs (line 92), which
\* sets the encoder's training flag (lines 718-721).
Batch(raises) ==
    /\ run.pc = "batch"
    /\ run.i < run.nb
    /\ raises => run.faulty # "none"
    /\ (run.faulty # "none" /\ run.i + 1 = run.nb) => raises
    /\ IF raises
       THEN /\ run' = [run EXCEPT !.pc = "epoch_raised"]
            /\ exc' = run.faulty
            /\ UNCHANGED fid_training
       ELSE /\ LET step == run.step + 1
                   ops == <<"forward", "backward">>
                          \o OptimizerOps(step, opt.accumulation_steps)
               IN  run' = [run EXCEPT !.step = step, !.i = @ + 1, !.batches = @ + 1,
                                      !.fwd_training = run.training, !.ops = ops,
                                      !.grads = GradsAfter(@, ops)]
            /\ fid_training' = (EffectiveMode("train", opt.finetune_encoder) = "train")
            /\ UNCHANGED exc
    /\ Unchanged

\* lines 214-236: the epoch's log lines and evaluate(), which puts the forecaster in
\* eval mode (line 356) and runs without gradients (line 373).  On a dev set of no
\* batch its loop body never runs and line 499 raises ZeroDivisionError; on a dev
\* set with a record that __getitem__ raises on, the DataLoader raises on line 374;
\* otherwise get_fid_outputs sets the encoder's training flag for mode 'eval'
\* (lines 378 and 718-721) and evaluate() returns dev_em.
EpochEnd(dev_em) ==
    /\ run.pc = "batch"
    /\ run.i = run.nb
    /\ IF run.dev_nb = 0 \/ run.dev_faulty # "none"
       THEN /\ run' = [run EXCEPT !.pc = "epoch_raised", !.training = FALSE]
            /\ exc' = IF run.dev_nb = 0 THEN "ZeroDivisionError" ELSE run.dev_faulty
            /\ UNCHANGED fid_training
       ELSE /\ run' = [run EXCEPT
                         !.training = FALSE, !.dev_em = dev_em, !.evals = @ + 1,
                         !.best_seen = IF RGt(dev_em, @) THEN dev_em ELSE @,
                         !.epoch = @ + 1, !.i = 0,
                         !.pc = IF run.epoch + 1 = opt.epochs THEN "after_loop"
                                ELSE "batch"]
            /\ fid_training' = (EffectiveMode("eval", opt.finetune_encoder) = "train")
            /\ UNCHANGED exc
    /\ Unchanged

\* lines 238-249
AfterLoop ==
    /\ run.pc = "after_loop"
    /\ run' = [run EXCEPT !.pc = "second_loop", !.best_dev_em = FloatOfInt(-1),
                          !.step = 0]
    /\ UNCHANGED <<fid_training, exc>>
    /\ Unchanged

\* lines 251-339: the DataLoader's batches are lists (identity_collate_fn), so
\* batch['input'] on line 254 raises in the first iteration; the loop is skipped
\* when range(opt.start_epoch, opt.epochs + 1) is empty
SecondLoop ==
    /\ run.pc = "second_loop"
    /\ IF opt.start_epoch < opt.epochs + 1
       THEN /\ run' = [run EXCEPT !.pc = "raised"]
            /\ exc' = "TypeError"
       ELSE /\ run' = [run EXCEPT !.pc = "save"]
            /\ UNCHANGED exc
    /\ UNCHANGED fid_training
    /\ Unchanged

\* lines 341-345
Save ==
    /\ run.pc = "save"
    /\ run' = [run EXCEPT
                 !.pc = "done",
                 !.checkpoints =
                    IF opt.is_main
                    THEN <<save({"encoder"}, run.step, run.best_dev_em, "fidmodel"),
                           save({"forecaster"}, run.step, run.best_dev_em, "gptmodel")>>
                    ELSE <<>>]
    /\ UNCHANGED <<fid_training, exc>>
    /\ Unchanged

TrainNext ==
    \/ Start
    \/ \E raises \in BOOLEAN : Batch(raises)
    \/ \E dev_em \in DevEms : EpochEnd(dev_em)
    \/ AfterLoop
    \/ SecondLoop
    \/ Save

SpecTrain == TrainInit /\ [][TrainNext]_vars

----------------------------------------------------------------------------
(* C13: when training finishes on the main process, a checkpoint is written that
   contains the encoder and the forecaster together with its input projection and
   the three task heads, with the optimizer and scheduler state, the number of
   training steps actually taken and the best dev exact-match observed. *)
C13_CheckpointComplete ==
    (run.pc = "done" /\ opt.is_main)
        => /\ run.checkpoints # <<>>
           /\ AllModules \subseteq
                UNION { run.checkpoints[k].modules : k \in 1..Len(run.checkpoints) }
           /\ \A k \in 1..Len(run.checkpoints) :
                /\ run.checkpoints[k].optimizer
                /\ run.checkpoints[k].scheduler
                /\ run.checkpoints[k].step = run.step0 + run.batches
                /\ run.checkpoints[k].best_eval_metric = run.best_seen

----------------------------------------------------------------------------
(* The example behind a dataset index, taken on its own *)

ItemOf(i) == getitem(data[i], opt)

\* the output at day d of the head of an example's own category
HeadOutput(it, d) ==
    CASE it.cat = 0 -> TfLogits(ItemHidden(it, d))
      [] it.cat = 1 -> McLogits(ItemHidden(it, d))
      [] it.cat = 2 -> ReResult(ItemHidden(it, d))

----------------------------------------------------------------------------
(* C14: the results list evaluate writes has exactly one entry per evaluated
   example, in dataset order across all batches; entry i is the output row of the
   head of example i's own category for that same example, cut to exactly
   seq_ends[i] + 1 days, for any mix of categories in a batch. *)
C14_ResultsPerExample ==
    net.pc = "evaluated"
        => /\ Len(net.results_file) = Len(data)
           /\ \A i \in 1..Len(data) :
                LET it == ItemOf(i) IN
                net.results_file[i] = [d \in 1..Len(it.rows) |-> HeadOutput(it, d)]

\* an evaluation of two batches whose first batch mixes the three categories, out
\* of category order, with examples of different lengths
C14_Witness ==
    /\ net.pc = "evaluated"
    /\ Len(data) > opt.per_gpu_batch_size * EvalBatchFactor
    /\ ItemOf(1).cat = 1
    /\ ItemOf(2).cat = 0
    /\ ItemOf(3).cat = 1
    /\ ItemOf(4).cat = 2
    /\ Len(net.results_file[1]) # Len(net.results_file[3])

----------------------------------------------------------------------------
(* Vocabulary of the properties of train() *)

\* the epoch loop is running or has just ended: step is still the running counter
InEpochLoop == run.pc \in {"batch", "after_loop"}

\* the latest batch ended with an optimizer update
Updated == Len(run.ops) > 2

\* the batches run since the latest step counter that was a multiple of
\* accumulation_steps, or since train() was entered if there was none
SinceUpdate ==
    IF \E s \in (run.step0 + 1)..run.step : s % opt.accumulation_steps = 0
    THEN run.step % opt.accumulation_steps
    ELSE run.step - run.step0

----------------------------------------------------------------------------
(* C15: in the epoch loop of train the step counter starts from the step passed in
   and grows by one per batch; an optimizer update happens in exactly the batches
   whose step counter is a multiple of accumulation_steps, always as gradient
   clipping, optimizer.step, scheduler.step, zeroing the gradients, in that order;
   the gradients are zeroed nowhere else, so between two updates the gradients of
   every backward pass are accumulated. *)
C15_UpdateEveryAccumulationSteps ==
    (InEpochLoop /\ run.batches > 0)
        => /\ run.step = run.step0 + run.batches
           /\ Updated <=> (run.step % opt.accumulation_steps = 0)
           /\ run.ops \in
                { <<"forward", "backward">>,
                  <<"forward", "backward", "clip_grad_norm_", "optimizer.step",
                    "scheduler.step", "optimizer.zero_grad">> }
           /\ run.grads.in_grad = SinceUpdate
           /\ run.grads.lost = 0

\* an update that applies the gradients of three batches, the first of them from
\* the epoch before, with an evaluation in between
C15_Witness ==
    /\ InEpochLoop
    /\ Updated
    /\ opt.accumulation_steps = 3
    /\ run.evals = 1
    /\ run.i < 3
    /\ run.batches >= 3
    /\ run.grads.applied = run.batches

----------------------------------------------------------------------------
(* C16: exactly one full evaluation pass runs at the end of each training epoch,
   and the best dev exact-match seen is tracked across them: the tracked best is
   never lower than the best value passed into train (it never decreases), and
   after the last epoch it equals the maximum of the value passed in and every
   epoch-end dev exact-match. *)
C16_BestDevEmTracked ==
    /\ run.pc # "off" => run.evals = run.epoch
    /\ run.pc # "off" => RGeq(run.best_dev_em, run.best0)
    /\ run.pc \in {"after_loop", "second_loop", "save", "done", "raised"}
         => run.best_dev_em = run.best_seen

----------------------------------------------------------------------------
(* The loss of an example taken on its own: over its own days and, for
   MultiChoice, over its own choices only *)

ItemDayLoss(it, d) ==
    LET row == it.rows[d]
        h == ItemHidden(it, d)
    IN  CASE it.cat = 0 ->
               LET nl == NegLogSoftmax(TfLogits(h)) IN
               LogAdd(LogScale(row[1], nl[1]), LogScale(RSub(<<1, 1>>, row[1]), nl[2]))
          [] it.cat = 1 ->
               LET nl == NegLogSoftmax(McLogits(h)) IN
               LogSum([j \in 1..Len(row) |-> LogScale(row[j], nl[j])])
          [] it.cat = 2 ->
               LET e == RSub(ReResult(h), row[1]) IN LogOfRat(RMul(e, e))

\* the summed loss of the example's days, divided by the number of its days
OwnLoss(b) ==
    LET it == OwnItem(b)
        days == Len(it.rows)
    IN  LogDiv(LogSum([d \in 1..days |-> ItemDayLoss(it, d)]), FloatOfInt(days))

\* the mean of the own losses of the batch's examples of category c, normalised
MeanOwnLoss(c) ==
    LET ix == CatIndex([b \in 1..Len(net.idxs) |-> OwnItem(b).cat], c)
        mean == LogMean([k \in 1..Len(ix) |-> OwnLoss(ix[k])])
    IN  CASE c = 0 -> mean
          [] c = 1 -> LogDiv(mean, <<87, 50>>)
          [] c = 2 -> LogDiv(mean, <<9, 50>>)

----------------------------------------------------------------------------
(* C17: no sentinel and no padded position contributes to a loss.  For MultiChoice
   only the entries with a target >= 0 enter the numerator, so neither the -1 of a
   choice slot that is not used nor the -2 of a padded day contributes; for
   BinaryTF and Regression only the days inside the mask contribute; the summed
   loss of each example is divided by that example's own number of valid days. *)
C17_LossOverValidPositions ==
    BatchDone => \A c \in BatchCats : LossOf(c) = MeanOwnLoss(c)

\* a batch of two MultiChoice examples of different lengths, so that the shorter
\* has padded days (-2) and both have choice slots that are not used (-1)
C17_Witness ==
    /\ BatchDone
    /\ Len(net.idxs) = 2
    /\ OwnItem(1).cat = 1
    /\ OwnItem(2).cat = 1
    /\ OwnDays(1) < OwnDays(2)
    /\ Len(OwnItem(1).rows[1]) < max_choice_len
    /\ LossOf(1) # LogZero

----------------------------------------------------------------------------
(* C18: a call of __getitem__ leaves the stored record unchanged (it works on deep
   copies of each day), so that an access repeated on the same index returns the
   same sub-examples, targets, true label and category, and the target adjustment
   is not compounded from one access to the next. *)
C18_RecordUnchanged ==
    Called
        => /\ data[last.index] = last.before
           /\ LET again == getitem(data[last.index], opt) IN
                /\ again.exc = last.result.exc
                /\ again.fid_examples = last.result.fid_examples
                /\ again.targets_pad = last.result.targets_pad
                /\ again.true_target = last.result.true_target
                /\ again.cat = last.result.cat

----------------------------------------------------------------------------
(* C19: whenever a forward/backward pass of the epoch loop of train runs, in any
   epoch, the forecaster is in training mode: the eval mode that the epoch-end
   evaluate sets does not persist into the training batches of the next epoch. *)
C19_BatchesInTrainingMode ==
    (run.pc # "off" /\ run.batches > 0) => run.fwd_training

----------------------------------------------------------------------------
(* C20: every gradient that a backward pass of the epoch loop produces is applied
   by an optimizer step: for any starting step, number of batches per epoch,
   number of epochs and accumulation_steps, no accumulated gradient is left
   unapplied when the last epoch has ended, and the epoch-end evaluation neither
   adds to nor clears the accumulated gradients. *)
C20_NoGradientLeft ==
    /\ run.pc \in {"after_loop", "second_loop", "save", "done", "raised"}
         => /\ run.grads.unapplied = 0
            /\ run.grads.lost = 0
            /\ run.grads.applied = run.batches
    /\ run.pc \in {"batch", "after_loop"} => run.grads.in_grad = SinceUpdate

----------------------------------------------------------------------------
\* the datasets passed to train() are sound: __getitem__ raises on no record, and
\* the dev set is not empty
SoundData == run.faulty = "none" /\ run.dev_faulty = "none" /\ run.dev_nb >= 1

(* C21: a call of train() on a non-empty training set with epochs >= 1 (and sound
   datasets) runs every configured epoch of the epoch loop and then reaches the
   end of the function, where the main process has saved a checkpoint; after the
   last evaluation of the epoch loop no exception is raised, and the function does
   not end without the checkpoint. *)
C21_TrainCompletes ==
    (run.pc # "off" /\ run.nb >= 1 /\ opt.epochs >= 1 /\ SoundData)
        => /\ run.pc \in {"after_loop", "second_loop", "save", "done", "raised"}
                => /\ run.epoch = opt.epochs
                   /\ run.batches = opt.epochs * run.nb
                   /\ run.evals = opt.epochs
           /\ run.pc # "raised"
           /\ exc = "none"
           /\ (run.pc = "done" /\ opt.is_main) => run.checkpoints # <<>>

====
